---- MODULE Spec2Model ----
(***************************************************************************)
(* State-machine model of docXML's stores.                                 *)
(*                                                                         *)
(* ImageManager (src/src/elements/ImageManager.ts): the registry of image  *)
(* entries keyed by Image object and by relationship id, the quota checks  *)
(* of registerImage, the batched bulk load and the release of image bytes. *)
(*                                                                         *)
(* Byte lengths and the configured limits are counted in one common unit   *)
(* (the code compares bytes with bytes).  The Image class itself is not    *)
(* part of the sources at hand: its observable behaviour (data loaded or   *)
(* not, byte length, extension, ensureDataLoaded, releaseData) is modelled *)
(* from the specification: getImageData throws "not loaded" exactly when   *)
(* the bytes are not in memory, ensureDataLoaded either loads them or      *)
(* throws, releaseData drops them.  The docPrId and relationshipId that    *)
(* registerImage writes on the Image are never read back by the manager    *)
(* and are not part of the state.                                          *)
(***************************************************************************)
EXTENDS Integers, Sequences, FiniteSets, TLC

(* ------------------------------ bounds -------------------------------- *)

\* Image objects the callers hold: 1..NumImages
NumImages == 3
\* relationship ids the callers pass: 1..NumRelIds  ("rId1", "rId2", ...)
NumRelIds == 2
\* options.maxImageCount given to the constructor
MaxImageCount == 2
\* options.maxSingleImageSizeMB given to the constructor (in size units)
MaxSingleImageSize == 2
\* options.maxTotalImageSizeMB given to the constructor (in size units)
MaxTotalImageSize == 2

Img == 1..NumImages
RelId == 1..NumRelIds

\* NumberingManager: the ids a caller passes explicitly, and the highest ids
\* that the create operations may mint
MaxAbstractNumId == 1
MaxNumId == 2

AbstractNumId == 0..MaxAbstractNumId
NumId == 1..MaxNumId

\* one more relationship id, for managers built with room for one more image
RelIdPlus == 1..(NumRelIds + 1)

(* ------------------- the Image class (from the spec) ------------------- *)

\* image.getImageData().length once the bytes are loaded: the images cover
\* "small", "exactly the single-image limit" and "over the single-image limit".
ImageBytes(i) ==
  CASE i % 3 = 1 -> 1
    [] i % 3 = 2 -> MaxSingleImageSize
    [] OTHER     -> MaxSingleImageSize + 1

\* image.getExtension(), as a sequence of characters
ImageExtension(i) ==
  IF i % 2 = 1 THEN <<"p", "n", "g">> ELSE <<"j", "p", "e", "g">>

(* ------------------------------ values -------------------------------- *)

DigitChars == <<"0", "1", "2", "3", "4", "5", "6", "7", "8", "9">>

IsDigit(ch) == \E d \in 1..10 : DigitChars[d] = ch

DigitValue(ch) == (CHOOSE d \in 1..10 : DigitChars[d] = ch) - 1

\* the decimal digits of a number n >= 0, as the template literal prints it
RECURSIVE NumberToString(_)
NumberToString(n) ==
  IF n < 10 THEN <<DigitChars[n + 1]>>
  ELSE Append(NumberToString(n \div 10), DigitChars[(n % 10) + 1])

\* parseInt(digits, 10) of a non-empty sequence of digits
RECURSIVE ParseInt(_)
ParseInt(digits) ==
  IF digits = <<>> THEN 0
  ELSE 10 * ParseInt(SubSeq(digits, 1, Len(digits) - 1))
       + DigitValue(digits[Len(digits)])

\* `image${n}.${extension}`: a filename is the sequence of its characters
MakeFilename(n, extension) ==
  <<"i", "m", "a", "g", "e">> \o NumberToString(n) \o <<".">> \o extension

\* no filename (undefined)
NoFilename == <<>>

\* interface ImageEntry
MakeEntry(image, filename, relationshipId, docPrId) ==
  [image |-> image, filename |-> filename,
   relationshipId |-> relationshipId, docPrId |-> docPrId]

\* A JavaScript number passed as `concurrency`: an integer, an integer plus
\* one half (a non-integer), or NaN.
IntNum(n)  == [kind |-> "int",  floor |-> n]
FracNum(n) == [kind |-> "frac", floor |-> n]
NaNNum     == [kind |-> "nan",  floor |-> 0]

\* concurrency < 1
NumLessThanOne(c) == c.kind \in {"int", "frac"} /\ c.floor < 1
\* concurrency > 50
NumGreaterThanFifty(c) ==
  \/ c.kind = "int" /\ c.floor > 50
  \/ c.kind = "frac" /\ c.floor >= 50
\* Number.isInteger(concurrency)
NumIsInteger(c) == c.kind = "int"

ConcurrencyInputs ==
  {IntNum(0), IntNum(1), IntNum(2), IntNum(50), IntNum(51), FracNum(1), NaNNum}

(* ------------------- Map<Image, ImageEntry> as a list ------------------ *)
\* A JavaScript Map iterates in insertion order; set() on a present key keeps
\* the key's position.  The map is a sequence of [key, entry] without
\* duplicate keys.

MapHas(m, k) == \E p \in 1..Len(m) : m[p].key = k

MapGet(m, k) == m[CHOOSE p \in 1..Len(m) : m[p].key = k].entry

MapSet(m, k, e) ==
  IF MapHas(m, k)
  THEN [p \in 1..Len(m) |-> IF m[p].key = k THEN [key |-> k, entry |-> e] ELSE m[p]]
  ELSE Append(m, [key |-> k, entry |-> e])

\* Array.from(map.values())
MapValues(m) == [p \in 1..Len(m) |-> m[p].entry]

RECURSIVE SumSeq(_)
SumSeq(s) == IF s = <<>> THEN 0 ELSE Head(s) + SumSeq(Tail(s))

\* Map<string, ImageEntry>: a function whose domain is the set of keys present
RelMapSet(m, r, e) == [x \in (DOMAIN m) \cup {r} |-> IF x = r THEN e ELSE m[x]]

EmptyRelMap == [x \in {} |-> x]

(* ------------------------------- state -------------------------------- *)

VARIABLES
  images,           \* ImageManager.images
  imagesByRelId,    \* ImageManager.imagesByRelId
  nextImageNumber,  \* ImageManager.nextImageNumber
  nextDocPrId,      \* ImageManager.nextDocPrId
  dataLoaded,       \* per Image: are its bytes in memory
  bulk,             \* the loadAllImageData call: its locals, the number of
                    \* console.warn calls it made, and its outcome
  inFlight,         \* positions of `images` whose ensureDataLoaded is pending
  attempted,        \* positions for which ensureDataLoaded has been invoked
  progress,         \* the (loaded, total) pairs passed to onProgress, in order
  firstFilename,    \* per relationship id: the first filename registerImage returned
  last,             \* the most recent call of a public method and its outcome
  maxImageCount,    \* ImageManager.maxImageCount
  highestMinted     \* the highest N of the filenames image<N>.<ext> minted so far

imVars == <<images, imagesByRelId, nextImageNumber, nextDocPrId>>

loadVars == <<bulk, inFlight, attempted, progress>>

VARIABLES
  abstractNumberings,  \* NumberingManager.abstractNumberings
  instances,           \* NumberingManager.instances
  nextAbstractNumId,   \* NumberingManager.nextAbstractNumId
  nextNumId,           \* NumberingManager.nextNumId
  lastNumbering,       \* the most recent call of a NumberingManager method and its outcome
  highestReturned,     \* the highest numId a create operation has returned so far
  highestReturnedSinceClear  \* the same, counted from the last clear()

numberingVars == <<abstractNumberings, instances, nextAbstractNumId, nextNumId,
                   lastNumbering, highestReturned, highestReturnedSinceClear>>

VARIABLES
  abstractOrder,   \* the keys of abstractNumberings in Map insertion order
  instanceOrder,   \* the keys of instances in Map insertion order
  numberingXml     \* what generateNumberingXml() / toXML() returned, when the
                   \* most recent call was one of them

xmlVars == <<abstractOrder, instanceOrder, numberingXml>>

VARIABLES
  levels,          \* per abstract numbering in the store: the left and hanging
                   \* indent of each of its NumberingLevel objects
  lastIndentation  \* the most recent call of an indentation method and its outcome

indentVars == <<levels, lastIndentation>>

VARIABLES
  comments,        \* CommentManager.comments: id -> entry (the comment and its replies)
  commentOrder,    \* the keys of comments in Map insertion order
  nextId,          \* CommentManager.nextId
  lastComment,     \* the most recent call of a CommentManager method and its outcome
  registrations    \* how many comments were registered since construction or
                   \* since the last clear()

commentVars == <<comments, commentOrder, nextId, lastComment, registrations>>

VARIABLES
  toc,             \* the fields of a TableOfContents that toXML() reads
  lastToc          \* the most recent call of a TableOfContents method and its outcome

tocVars == <<toc, lastToc>>

VARIABLES
  style,           \* Style.properties
  lastStyle        \* the most recent call of a Style method and its outcome

styleVars == <<style, lastStyle>>

VARIABLES
  sdt,             \* the StructuredDocumentTag that the caller has built
  sdtBuffer,       \* its w:sdt element in the buffer that doc.toBuffer() wrote
  loadedSdt        \* the StructuredDocumentTag that Document.loadFromBuffer() decoded

sdtVars == <<sdt, sdtBuffer, loadedSdt>>

\* the state that is followed in one specification only
laterVars == <<xmlVars, indentVars, commentVars, tocVars, styleVars, sdtVars>>

otherThanXml == <<indentVars, commentVars, tocVars, styleVars, sdtVars>>

otherThanIndent == <<xmlVars, commentVars, tocVars, styleVars, sdtVars>>

otherThanComments == <<xmlVars, indentVars, tocVars, styleVars, sdtVars>>

otherThanToc == <<xmlVars, indentVars, commentVars, styleVars, sdtVars>>

otherThanStyle == <<xmlVars, indentVars, commentVars, tocVars, sdtVars>>

otherThanSdt == <<xmlVars, indentVars, commentVars, tocVars, styleVars>>

\* what the ImageManager operations of Spec leave alone
otherVars == <<maxImageCount, highestMinted, numberingVars, laterVars>>

imageManagerVars == <<images, imagesByRelId, nextImageNumber, nextDocPrId,
                      dataLoaded, bulk, inFlight, attempted,
                      progress, firstFilename, last, maxImageCount, highestMinted>>

vars == <<images, imagesByRelId, nextImageNumber, nextDocPrId,
          dataLoaded, bulk, inFlight, attempted,
          progress, firstFilename, last, otherVars>>

\* Which public method was called most recently, and what it returned or threw.
NoCall == [op |-> "none", error |-> "", filename |-> NoFilename]

Call(op, error, filename) == [op |-> op, error |-> error, filename |-> filename]

\* No loadAllImageData call has been made yet.
NoBulk ==
  [status |-> "idle", images |-> <<>>, total |-> 0, concurrency |-> 0,
   i |-> 0, loaded |-> 0, warned |-> 0]

\* getImageCount()
getImageCount == Len(images)

\* getTotalSize(): the bytes of the entries' images that are loaded
getTotalSize ==
  SumSeq([p \in 1..Len(images) |->
            IF dataLoaded[images[p].entry.image]
            THEN ImageBytes(images[p].entry.image) ELSE 0])

(* ---------------------------- constructor ----------------------------- *)

\* new ImageManager({ maxImageCount: options_maxImageCount })
ImageManagerInit(options_maxImageCount) ==
  /\ images = <<>>
  /\ imagesByRelId = EmptyRelMap
  /\ nextImageNumber = 1
  /\ nextDocPrId = 1
  /\ maxImageCount = options_maxImageCount
  /\ dataLoaded \in [Img -> BOOLEAN]
  /\ bulk = NoBulk
  /\ inFlight = {}
  /\ attempted = {}
  /\ progress = <<>>
  /\ firstFilename = [r \in RelIdPlus |-> NoFilename]
  /\ last = NoCall
  /\ highestMinted = 0

\* What a NumberingManager method returned or threw.
NumberingCall(op, error, numId, removed, instancesRemoved, abstractsRemoved) ==
  [op |-> op, error |-> error, numId |-> numId, removed |-> removed,
   instancesRemoved |-> instancesRemoved, abstractsRemoved |-> abstractsRemoved]

NoNumberingCall == NumberingCall("none", FALSE, 0, FALSE, 0, 0)

\* An AbstractNumbering object: its id and the factory that built it.
MakeAbstractNumbering(abstractNumId, kind) ==
  [abstractNumId |-> abstractNumId, kind |-> kind]

\* A NumberingInstance object: NumberingInstance.create({ numId, abstractNumId })
MakeInstance(numId, abstractNumId) ==
  [numId |-> numId, abstractNumId |-> abstractNumId]

EmptyIdMap == [x \in {} |-> x]

\* Map<number, T>.set(id, value)
IdMapSet(m, id, value) ==
  [x \in (DOMAIN m) \cup {id} |-> IF x = id THEN value ELSE m[x]]

\* the map after delete() of every key in ids
IdMapDelete(m, ids) == [x \in (DOMAIN m) \ ids |-> m[x]]

\* new NumberingManager(initializeDefaults)
NumberingManagerInit(initializeDefaults) ==
  /\ abstractNumberings =
       IF initializeDefaults
       THEN IdMapSet(IdMapSet(EmptyIdMap, 0, MakeAbstractNumbering(0, "bullet")),
                     1, MakeAbstractNumbering(1, "numbered"))
       ELSE EmptyIdMap
  /\ instances = EmptyIdMap
  /\ nextAbstractNumId = IF initializeDefaults THEN 2 ELSE 0
  /\ nextNumId = 1
  /\ lastNumbering = NoNumberingCall
  /\ highestReturned = 0
  /\ highestReturnedSinceClear = 0

\* no XML was generated yet
NoXml == [op |-> "none", declaration |-> FALSE, name |-> <<>>, children |-> <<>>]

\* the insertion order of the two maps after new NumberingManager(initializeDefaults)
NumberingOrderInit(initializeDefaults) ==
  /\ abstractOrder = IF initializeDefaults THEN <<0, 1>> ELSE <<>>
  /\ instanceOrder = <<>>
  /\ numberingXml = NoXml

\* What an indentation method returned or threw.
IndentationCall(op, error, returned, count, leftIndent, hangingIndent) ==
  [op |-> op, error |-> error, returned |-> returned, count |-> count,
   leftIndent |-> leftIndent, hangingIndent |-> hangingIndent]

NoIndentationCall == IndentationCall("none", FALSE, FALSE, 0, 0, 0)

\* the levels after new NumberingManager(): no abstract numbering, no level
IndentationInit ==
  /\ levels = EmptyIdMap
  /\ lastIndentation = NoIndentationCall

\* What a CommentManager method returned or threw: the id of the comment it
\* returned (NoComment when it returned none), the boolean it returned, and
\* the w:comment elements of the XML it returned.
CommentCall(op, error, id, returned, xml) ==
  [op |-> op, error |-> error, id |-> id, returned |-> returned, xml |-> xml]

NoComment == -1

NoCommentCall == CommentCall("none", FALSE, NoComment, FALSE, <<>>)

\* new CommentManager()
CommentManagerInit ==
  /\ comments = EmptyIdMap
  /\ commentOrder = <<>>
  /\ nextId = 0
  /\ lastComment = NoCommentCall
  /\ registrations = 0

\* An optional property of TOCProperties: given with a value, or undefined.
Given(value) == [given |-> TRUE, value |-> value]

\* an undefined property, with a value of the property's type in its place
Undefined(placeholder) == [given |-> FALSE, value |-> placeholder]

\* properties = {}
NoProperties ==
  [title           |-> Undefined(""),
   levels          |-> Undefined(0),
   includeStyles   |-> Undefined(<<>>),
   showPageNumbers |-> Undefined(FALSE),
   useHyperlinks   |-> Undefined(FALSE),
   tabLeader       |-> Undefined(""),
   fieldSwitches   |-> Undefined("")]

\* value || fallback, for a string property
StringOr(property, fallback) ==
  IF property.given /\ property.value # "" THEN property.value ELSE fallback

\* new TableOfContents(properties)
Construct(properties) ==
  [title           |-> StringOr(properties.title, "Table of Contents"),
   levels          |-> IF properties.levels.given /\ properties.levels.value # 0
                       THEN properties.levels.value ELSE 3,
   includeStyles   |-> properties.includeStyles,
   showPageNumbers |-> ~(properties.showPageNumbers.given
                          /\ properties.showPageNumbers.value = FALSE),
   useHyperlinks   |-> properties.useHyperlinks.given
                         /\ properties.useHyperlinks.value,
   tabLeader       |-> StringOr(properties.tabLeader, "dot"),
   fieldSwitches   |-> properties.fieldSwitches]

\* What a TableOfContents method returned or threw; elements is the array
\* that toXML() returned.
TocCall(op, error, elements) ==
  [op |-> op, error |-> error, elements |-> elements]

NoTocCall == TocCall("none", FALSE, <<>>)

\* the state after new TableOfContents(properties)
TableOfContentsInit(properties) ==
  /\ toc = Construct(properties)
  /\ lastToc = NoTocCall

\* this.properties.tableStyle = {}
EmptyTableStyle == [rowBandSize |-> Undefined(0), colBandSize |-> Undefined(0)]

\* StyleProperties with the required fields only
MakeStyleProperties(styleId, name, type) ==
  [styleId             |-> styleId,
   name                |-> name,
   type                |-> type,
   basedOn             |-> Undefined(""),
   next                |-> Undefined(""),
   link                |-> Undefined(""),
   uiPriority          |-> Undefined(0),
   tableStyle          |-> Undefined(EmptyTableStyle),
   paragraphFormatting |-> Undefined([alignment |-> ""]),
   runFormatting       |-> Undefined([bold |-> FALSE])]

\* What a Style method did: returned this, or threw.
StyleCall(op, error) == [op |-> op, error |-> error]

\* the state after new Style(properties): this.properties = { ...properties }
StyleInit(properties) ==
  /\ style = properties
  /\ lastStyle = StyleCall("none", FALSE)

\* A body element: a paragraph, a table or a content control.  A content
\* control has a control type and an ordered content of body elements.
BodyElement(kind, controlType, text, content) ==
  [kind |-> kind, controlType |-> controlType, text |-> text, content |-> content]

\* StructuredDocumentTag.create({ controlType, content })
MakeSdt(controlType, content) == BodyElement("sdt", controlType, "", content)

\* new Paragraph().addText(text)
MakeParagraph(text) == BodyElement("paragraph", "", text, <<>>)

\* no element: nothing written, nothing loaded
NoElement == BodyElement("none", "", "", <<>>)

\* An element of the document part: its name, its text and its children.
XmlNode(name, text, children) ==
  [name |-> name, text |-> text, children |-> children]

\* the state after the caller has built the content control first
SdtInit(first) ==
  /\ sdt = first
  /\ sdtBuffer = XmlNode("", "", <<>>)
  /\ loadedSdt = NoElement

\* the state that a specification does not follow
LaterInit(followed) ==
  /\ "xml" \in followed \/ NumberingOrderInit(FALSE)
  /\ "indent" \in followed \/ IndentationInit
  /\ "comments" \in followed \/ CommentManagerInit
  /\ "toc" \in followed \/ TableOfContentsInit(NoProperties)
  /\ "sdt" \in followed \/ SdtInit(MakeSdt("richText", <<>>))
  /\ "style" \in followed
       \/ StyleInit(MakeStyleProperties("Normal", "Normal", "paragraph"))

Init ==
  /\ ImageManagerInit(MaxImageCount)
  /\ NumberingManagerInit(FALSE)
  /\ LaterInit({})

(* ---------------------------- registerImage --------------------------- *)

\* A slip in the count check: > instead of >=.
CountLimitReachedOffByOne == Len(images) > maxImageCount

\* this.images.size >= this.maxImageCount
CountLimitReached == Len(images) >= maxImageCount

\* A slip in the catch block: every error is swallowed, none is re-thrown.
SizeCheckSwallowed(image) == ""

\* The outcome of the try/catch block of registerImage (lines 99-138):
\* "" when the checks pass or are skipped, else the error that is re-thrown.
SizeCheck(image) ==
  IF ~dataLoaded[image] THEN ""          \* getImageData throws "not loaded"
  ELSE IF ImageBytes(image) > MaxSingleImageSize THEN "single-size"
  ELSE IF getTotalSize + ImageBytes(image) > MaxTotalImageSize THEN "total-size"
  ELSE ""

\* bookkeeping of what registerImage returned, per relationship id passed
NoteReturned(relationshipId, filename) ==
  IF firstFilename[relationshipId] = NoFilename
  THEN [firstFilename EXCEPT ![relationshipId] = filename]
  ELSE firstFilename

RegisterImage(image, relationshipId) ==
  IF relationshipId \in DOMAIN imagesByRelId
  THEN \* same rId: reuse filename and update object reference
       /\ images' = MapSet(images, image, imagesByRelId[relationshipId])
       /\ last' = Call("registerImage", "",
                       imagesByRelId[relationshipId].filename)
       /\ firstFilename' = NoteReturned(relationshipId,
                                        imagesByRelId[relationshipId].filename)
       /\ UNCHANGED <<imagesByRelId, nextImageNumber, nextDocPrId,
                      dataLoaded>>
       /\ UNCHANGED loadVars
  ELSE IF MapHas(images, image)
  THEN \* already registered by object reference
       /\ last' = Call("registerImage", "",
                       MapGet(images, image).filename)
       /\ firstFilename' = NoteReturned(relationshipId, MapGet(images, image).filename)
       /\ UNCHANGED <<images, imagesByRelId, nextImageNumber, nextDocPrId,
                      dataLoaded>>
       /\ UNCHANGED loadVars
  ELSE IF CountLimitReached
  THEN /\ last' = Call("registerImage", "count", NoFilename)
       /\ UNCHANGED <<images, imagesByRelId, nextImageNumber, nextDocPrId,
                      dataLoaded, firstFilename>>
       /\ UNCHANGED loadVars
  ELSE IF SizeCheck(image) # ""
  THEN /\ last' = Call("registerImage", SizeCheck(image), NoFilename)
       /\ UNCHANGED <<images, imagesByRelId, nextImageNumber, nextDocPrId,
                      dataLoaded, firstFilename>>
       /\ UNCHANGED loadVars
  ELSE LET filename == MakeFilename(nextImageNumber, ImageExtension(image))
           docPrId  == nextDocPrId
           entry    == MakeEntry(image, filename, relationshipId, docPrId)
       IN /\ nextImageNumber' = nextImageNumber + 1
          /\ nextDocPrId' = nextDocPrId + 1
          /\ images' = MapSet(images, image, entry)
          /\ imagesByRelId' = RelMapSet(imagesByRelId, relationshipId, entry)
          /\ last' = Call("registerImage", "", filename)
          /\ firstFilename' = NoteReturned(relationshipId, filename)
          /\ UNCHANGED dataLoaded
          /\ UNCHANGED loadVars

(* -------------------------- loadAllImageData --------------------------- *)

Min(a, b) == IF a < b THEN a ELSE b

\* A slip in the slice: one entry too many per batch.
BatchPositionsOneMore(i, concurrency, total) ==
  (i + 1)..Min(i + concurrency + 1, total)

\* the positions of images.slice(i, Math.min(i + concurrency, total))
BatchPositions(i, concurrency, total) == (i + 1)..Min(i + concurrency, total)

\* A slip in the validation: the integer test is left out.
ConcurrencyRejectedNoIntegerTest(c) ==
  NumLessThanOne(c) \/ NumGreaterThanFifty(c)

\* the validation of lines 245-247
ConcurrencyRejected(c) ==
  NumLessThanOne(c) \/ NumGreaterThanFifty(c) \/ ~NumIsInteger(c)

\* The call itself: it runs up to the first await, so it issues the
\* ensureDataLoaded calls of the first batch.  The caller passes an onProgress
\* callback that records its arguments and does not throw.
LoadAllImageData(concurrency) ==
  /\ LET imgs  == MapValues(images)
         total == Len(imgs)
     IN IF total = 0
        THEN /\ bulk' = [NoBulk EXCEPT !.status = "resolved"]
             /\ inFlight' = {}
             /\ attempted' = {}
             /\ last' = Call("loadAllImageData", "", NoFilename)
        ELSE IF ConcurrencyRejected(concurrency)
        THEN /\ bulk' = [NoBulk EXCEPT !.status = "rejected",
                                       !.total = total]
             /\ inFlight' = {}
             /\ attempted' = {}
             /\ last' = Call("loadAllImageData", "concurrency", NoFilename)
        ELSE /\ bulk' = [status |-> "running", images |-> imgs, total |-> total,
                         concurrency |-> concurrency.floor, i |-> 0,
                         loaded |-> 0, warned |-> 0]
             /\ inFlight' = BatchPositions(0, concurrency.floor, total)
             /\ attempted' = BatchPositions(0, concurrency.floor, total)
             /\ last' = Call("loadAllImageData", "", NoFilename)
  /\ progress' = <<>>
  /\ UNCHANGED <<images, imagesByRelId, nextImageNumber, nextDocPrId,
                 dataLoaded, firstFilename>>

\* A slip in the catch branch: a failed load is not counted.
LoadedAfterFailureNotCounted(loaded, ok) == IF ok THEN loaded + 1 ELSE loaded

\* loaded++ in the try branch (line 260) and in the catch branch (line 271)
LoadedAfter(loaded, ok) == loaded + 1

\* A slip: no try/catch around the load, the rejection reaches Promise.all and
\* the call rejects.
StatusAfterSettleNoCatch(ok) == IF ok THEN "running" ELSE "rejected"

\* The try/catch of lines 258-276: the callback of an entry never rejects,
\* the bulk load goes on whether the load succeeded or failed.
StatusAfterSettle(ok) == "running"

\* One entry's ensureDataLoaded settles and the rest of its callback runs:
\* loaded++ and the progress report, in the try branch or in the catch branch.
LoadSettles(p, ok) ==
  /\ bulk.status = "running"
  /\ p \in inFlight
  /\ inFlight' = inFlight \ {p}
  /\ dataLoaded' = IF ok THEN [dataLoaded EXCEPT ![bulk.images[p].image] = TRUE]
                         ELSE dataLoaded
  /\ bulk' = [bulk EXCEPT !.loaded = LoadedAfter(bulk.loaded, ok),
                          !.warned = IF ok THEN bulk.warned ELSE bulk.warned + 1,
                          !.status = StatusAfterSettle(ok)]
  /\ progress' = Append(progress, <<LoadedAfter(bulk.loaded, ok), bulk.total>>)
  /\ UNCHANGED <<last, images, imagesByRelId, nextImageNumber, nextDocPrId,
                 attempted, firstFilename>>

\* Promise.all of the batch has resolved: the for loop goes on with the next
\* batch, or the call resolves.
BatchJoined ==
  /\ bulk.status = "running"
  /\ inFlight = {}
  /\ LET i == bulk.i + bulk.concurrency
     IN IF i < bulk.total
        THEN /\ bulk' = [bulk EXCEPT !.i = i]
             /\ inFlight' = BatchPositions(i, bulk.concurrency, bulk.total)
             /\ attempted' = attempted \cup
                               BatchPositions(i, bulk.concurrency, bulk.total)
        ELSE \* the call returns: its locals images, i and concurrency are gone
             /\ bulk' = [NoBulk EXCEPT !.status = "resolved",
                                       !.total = bulk.total,
                                       !.loaded = bulk.loaded,
                                       !.warned = bulk.warned]
             /\ UNCHANGED <<inFlight, attempted>>
  /\ UNCHANGED <<last, images, imagesByRelId, nextImageNumber, nextDocPrId,
                 dataLoaded, progress,
                 firstFilename>>

(* ------------------------- releaseAllImageData ------------------------- *)

\* A slip: releasing also forgets the relationship-id index.
ReleaseAllImageDataForgets ==
  /\ dataLoaded' = [i \in Img |->
                      IF \E p \in 1..Len(images) : images[p].entry.image = i
                      THEN FALSE ELSE dataLoaded[i]]
  /\ imagesByRelId' = EmptyRelMap
  /\ last' = Call("releaseAllImageData", "", NoFilename)
  /\ UNCHANGED <<images, nextImageNumber, nextDocPrId, firstFilename>>
  /\ UNCHANGED loadVars

ReleaseAllImageData ==
  /\ dataLoaded' = [i \in Img |->
                      IF \E p \in 1..Len(images) : images[p].entry.image = i
                      THEN FALSE ELSE dataLoaded[i]]
  /\ last' = Call("releaseAllImageData", "", NoFilename)
  /\ UNCHANGED <<images, imagesByRelId, nextImageNumber, nextDocPrId,
                 firstFilename>>
  /\ UNCHANGED loadVars

(* ---------------------- initializeFromLoadedImages --------------------- *)

\* The positions at which /image(\d+)\./ matches in the filename: "image",
\* then a maximal run of at least one digit, then a dot.
DigitRunEnd(f, from) ==
  CHOOSE e \in (from - 1)..Len(f) :
    /\ \A q \in from..e : IsDigit(f[q])
    /\ e = Len(f) \/ ~IsDigit(f[e + 1])

MatchesAt(f, s) ==
  /\ s + 4 <= Len(f)
  /\ SubSeq(f, s, s + 4) = <<"i", "m", "a", "g", "e">>
  /\ DigitRunEnd(f, s + 5) >= s + 5
  /\ DigitRunEnd(f, s + 5) < Len(f)
  /\ f[DigitRunEnd(f, s + 5) + 1] = "."

\* parseInt(match[1], 10) of the first match, or 0 when there is no match
FilenameNumber(f) ==
  IF \E s \in 1..Len(f) : MatchesAt(f, s)
  THEN LET s == CHOOSE x \in 1..Len(f) :
                  MatchesAt(f, x) /\ \A y \in 1..(x - 1) : ~MatchesAt(f, y)
       IN ParseInt(SubSeq(f, s + 5, DigitRunEnd(f, s + 5)))
  ELSE 0

\* A slip in the scan: the number seen last wins, not the highest.
RECURSIVE MaxNumberLastSeen(_, _)
MaxNumberLastSeen(entries, maxNumber) ==
  IF entries = <<>> THEN maxNumber
  ELSE MaxNumberLastSeen(Tail(entries), FilenameNumber(Head(entries).filename))

RECURSIVE MaxNumber(_, _)
MaxNumber(entries, maxNumber) ==
  IF entries = <<>> THEN maxNumber
  ELSE MaxNumber(Tail(entries),
                 IF FilenameNumber(Head(entries).filename) > maxNumber
                 THEN FilenameNumber(Head(entries).filename) ELSE maxNumber)

InitializeFromLoadedImages ==
  /\ nextImageNumber' = MaxNumber(MapValues(images), 0) + 1
  /\ last' = Call("initializeFromLoadedImages", "", NoFilename)
  /\ UNCHANGED <<images, imagesByRelId, nextDocPrId, dataLoaded,
                 firstFilename>>
  /\ UNCHANGED loadVars

(* -------------------------------- clear -------------------------------- *)

Clear ==
  /\ images' = <<>>
  /\ imagesByRelId' = EmptyRelMap
  /\ nextImageNumber' = 1
  /\ nextDocPrId' = 1
  /\ firstFilename' = [r \in RelIdPlus |-> NoFilename]
  /\ last' = Call("clear", "", NoFilename)
  /\ UNCHANGED <<dataLoaded>>
  /\ UNCHANGED loadVars

(* ---------------------------- specification ---------------------------- *)

\* The stores are owned by one thread of control that awaits the bulk load:
\* no public method is called while a bulk load is pending.
Quiescent == bulk.status # "running"

Next ==
  \/ /\ Quiescent
     /\ \E image \in Img, relationshipId \in RelId : RegisterImage(image, relationshipId)
     /\ UNCHANGED otherVars
  \/ /\ Quiescent
     /\ \E c \in ConcurrencyInputs : LoadAllImageData(c)
     /\ UNCHANGED otherVars
  \/ /\ \E p \in inFlight, ok \in BOOLEAN : LoadSettles(p, ok)
     /\ UNCHANGED otherVars
  \/ BatchJoined /\ UNCHANGED otherVars
  \/ Quiescent /\ ReleaseAllImageData /\ UNCHANGED otherVars
  \/ Quiescent /\ InitializeFromLoadedImages /\ UNCHANGED otherVars
  \/ Quiescent /\ Clear /\ UNCHANGED otherVars

Spec == Init /\ [][Next]_vars

\* The bulk load is awaited by one caller while another piece of the program
\* goes on registering images: registerImage runs whenever the bulk load is
\* suspended, waiting for the loads of a batch.
InterleavedNext ==
  \/ /\ \E image \in Img, relationshipId \in RelId : RegisterImage(image, relationshipId)
     /\ UNCHANGED otherVars
  \/ /\ Quiescent
     /\ \E c \in ConcurrencyInputs : LoadAllImageData(c)
     /\ UNCHANGED otherVars
  \/ /\ \E p \in inFlight, ok \in BOOLEAN : LoadSettles(p, ok)
     /\ UNCHANGED otherVars
  \/ BatchJoined /\ UNCHANGED otherVars

SpecInterleaved == Init /\ [][InterleavedNext]_vars

\* A manager with room for one more image, on which registerImage and
\* initializeFromLoadedImages are called in any order; clear() is never called.
\* highestMinted records the numbers that registerImage mints.
MintingInit ==
  /\ ImageManagerInit(MaxImageCount + 1)
  /\ dataLoaded = [i \in Img |-> FALSE]
  /\ NumberingManagerInit(FALSE)
  /\ LaterInit({})

RegisterImageNoted(image, relationshipId) ==
  /\ RegisterImage(image, relationshipId)
  /\ highestMinted' = IF nextImageNumber' # nextImageNumber
                         /\ nextImageNumber > highestMinted
                      THEN nextImageNumber ELSE highestMinted

MintingNext ==
  \/ /\ \E image \in Img, relationshipId \in RelIdPlus :
          RegisterImageNoted(image, relationshipId)
     /\ UNCHANGED <<maxImageCount, numberingVars, laterVars>>
  \/ InitializeFromLoadedImages /\ UNCHANGED otherVars

SpecMinting == MintingInit /\ [][MintingNext]_vars

(* ========================== NumberingManager =========================== *)

\* A slip in addAbstractNumbering: the counter is never raised.
NextIdAfterAddNeverRaised(next, id) == next

\* A slip in the update: the counter is set to the id itself.
NextIdAfterAddStuck(next, id) == id

\* if (id >= this.next...Id) this.next...Id = id + 1
NextIdAfterAdd(next, id) == IF id >= next THEN id + 1 ELSE next

hasAbstractNumbering(abstractNumId) == abstractNumId \in DOMAIN abstractNumberings

\* addAbstractNumbering(abstractNumbering)
AddAbstractNumbering(abstractNumbering) ==
  /\ abstractNumberings' = IdMapSet(abstractNumberings,
                                    abstractNumbering.abstractNumId, abstractNumbering)
  /\ nextAbstractNumId' = NextIdAfterAdd(nextAbstractNumId,
                                         abstractNumbering.abstractNumId)
  /\ lastNumbering' = NumberingCall("addAbstractNumbering", FALSE, 0, FALSE, 0, 0)
  /\ UNCHANGED <<instances, nextNumId>>

\* A slip in addInstance: the existence check is left out.
MissingAbstractNumberingUnchecked(abstractNumId) == FALSE

\* !this.hasAbstractNumbering(abstractNumId)
MissingAbstractNumbering(abstractNumId) == ~hasAbstractNumbering(abstractNumId)

\* addInstance(instance)
AddInstance(instance) ==
  IF MissingAbstractNumbering(instance.abstractNumId)
  THEN /\ lastNumbering' = NumberingCall("addInstance", TRUE, 0, FALSE, 0, 0)
       /\ UNCHANGED <<abstractNumberings, instances, nextAbstractNumId, nextNumId>>
  ELSE /\ instances' = IdMapSet(instances, instance.numId, instance)
       /\ nextNumId' = NextIdAfterAdd(nextNumId, instance.numId)
       /\ lastNumbering' = NumberingCall("addInstance", FALSE, 0, FALSE, 0, 0)
       /\ UNCHANGED <<abstractNumberings, nextAbstractNumId>>

\* addNumberingInstance(instance): return this.addInstance(instance)
AddNumberingInstance(instance) == AddInstance(instance)

\* A slip in removeAbstractNumbering: the instances are left in place.
InstancesToRemoveNone(abstractNumId) == {}

\* the numIds collected by the forEach of removeAbstractNumbering
InstancesToRemove(abstractNumId) ==
  {numId \in DOMAIN instances : instances[numId].abstractNumId = abstractNumId}

\* removeAbstractNumbering(abstractNumId)
RemoveAbstractNumbering(abstractNumId) ==
  /\ instances' = IdMapDelete(instances, InstancesToRemove(abstractNumId))
  /\ abstractNumberings' = IdMapDelete(abstractNumberings, {abstractNumId})
  /\ lastNumbering' = NumberingCall("removeAbstractNumbering", FALSE, 0,
                                    abstractNumId \in DOMAIN abstractNumberings, 0, 0)
  /\ UNCHANGED <<nextAbstractNumId, nextNumId>>

\* removeInstance(numId)
RemoveInstance(numId) ==
  /\ instances' = IdMapDelete(instances, {numId})
  /\ lastNumbering' = NumberingCall("removeInstance", FALSE, 0,
                                    numId \in DOMAIN instances, 0, 0)
  /\ UNCHANGED <<abstractNumberings, nextAbstractNumId, nextNumId>>

\* A slip in the create operations: the instance is given the id before the
\* one of the abstract numbering just added.
InstanceAbstractNumIdPrevious(abstractNumId) == abstractNumId - 1

\* NumberingInstance.create({ numId, abstractNumId }): the id the instance references
InstanceAbstractNumId(abstractNumId) == abstractNumId

\* The body shared by createBulletList, createNumberedList, createMultiLevelList,
\* createOutlineList and createCustomList: they differ in the factory only.
CreateList(op, kind) ==
  LET abstractNumId == nextAbstractNumId
      afterAbstract == IdMapSet(abstractNumberings, abstractNumId,
                                MakeAbstractNumbering(abstractNumId, kind))
      numId         == nextNumId
      instance      == MakeInstance(numId, InstanceAbstractNumId(abstractNumId))
  IN /\ abstractNumberings' = afterAbstract
     /\ nextAbstractNumId' = NextIdAfterAdd(nextAbstractNumId + 1, abstractNumId)
     /\ IF instance.abstractNumId \notin DOMAIN afterAbstract
        THEN \* addInstance throws after the counter was advanced
             /\ nextNumId' = nextNumId + 1
             /\ lastNumbering' = NumberingCall(op, TRUE, 0, FALSE, 0, 0)
             /\ UNCHANGED instances
        ELSE /\ instances' = IdMapSet(instances, numId, instance)
             /\ nextNumId' = NextIdAfterAdd(nextNumId + 1, numId)
             /\ lastNumbering' = NumberingCall(op, FALSE, numId, FALSE, 0, 0)

CreateBulletList == CreateList("createBulletList", "bullet")

CreateNumberedList == CreateList("createNumberedList", "numbered")

CreateMultiLevelList == CreateList("createMultiLevelList", "multiLevel")

CreateOutlineList == CreateList("createOutlineList", "outline")

CreateCustomList == CreateList("createCustomList", "custom")

\* createInstance(abstractNumId)
CreateInstance(abstractNumId) ==
  IF ~hasAbstractNumbering(abstractNumId)
  THEN /\ lastNumbering' = NumberingCall("createInstance", TRUE, 0, FALSE, 0, 0)
       /\ UNCHANGED <<abstractNumberings, instances, nextAbstractNumId, nextNumId>>
  ELSE /\ instances' = IdMapSet(instances, nextNumId,
                                MakeInstance(nextNumId, abstractNumId))
       /\ nextNumId' = NextIdAfterAdd(nextNumId + 1, nextNumId)
       /\ lastNumbering' = NumberingCall("createInstance", FALSE, nextNumId, FALSE, 0, 0)
       /\ UNCHANGED <<abstractNumberings, nextAbstractNumId>>

\* the ids of S in ascending order: sort((a, b) => a - b)
RECURSIVE AscendingIds(_)
AscendingIds(S) ==
  IF S = {} THEN <<>>
  ELSE LET least == CHOOSE x \in S : \A y \in S : x <= y
       IN <<least>> \o AscendingIds(S \ {least})

\* getAllInstances(): the instances sorted by numId
getAllInstances ==
  [p \in 1..Cardinality(DOMAIN instances) |->
     instances[AscendingIds(DOMAIN instances)[p]]]

\* getAllNumberingInstances(): return this.getAllInstances()
getAllNumberingInstances == getAllInstances

\* A slip in step 2 of cleanupUnusedNumbering: no reference is collected.
ReferencedAbstractNumIdsNone(remaining) == {}

\* A slip in step 2 of cleanupUnusedNumbering: the references are collected
\* before the unused instances are deleted.
ReferencedAbstractNumIdsStale(remaining) ==
  {instances[numId].abstractNumId : numId \in DOMAIN instances}

\* step 2 of cleanupUnusedNumbering: the ids referenced by the remaining instances
ReferencedAbstractNumIds(remaining) ==
  {remaining[numId].abstractNumId : numId \in DOMAIN remaining}

\* cleanupUnusedNumbering(usedNumIds)
CleanupUnusedNumbering(usedNumIds) ==
  LET instancesToRemove == {numId \in DOMAIN instances : numId \notin usedNumIds}
      remaining         == IdMapDelete(instances, instancesToRemove)
      abstractsToRemove == {a \in DOMAIN abstractNumberings :
                              a \notin ReferencedAbstractNumIds(remaining)}
  IN /\ instances' = remaining
     /\ abstractNumberings' = IdMapDelete(abstractNumberings, abstractsToRemove)
     /\ lastNumbering' = NumberingCall("cleanupUnusedNumbering", FALSE, 0, FALSE,
                                       Cardinality(instancesToRemove),
                                       Cardinality(abstractsToRemove))
     /\ UNCHANGED <<nextAbstractNumId, nextNumId>>

\* NumberingManager.clear()
NumberingClear ==
  /\ abstractNumberings' = EmptyIdMap
  /\ instances' = EmptyIdMap
  /\ nextAbstractNumId' = 0
  /\ nextNumId' = 1
  /\ lastNumbering' = NumberingCall("clear", FALSE, 0, FALSE, 0, 0)

CreateOps ==
  {"createBulletList", "createNumberedList", "createMultiLevelList",
   "createOutlineList", "createCustomList", "createInstance"}

\* this call is a create operation that returned a numId
Returns == lastNumbering'.op \in CreateOps /\ ~lastNumbering'.error

\* bookkeeping of the numIds that the create operations return
NumIdNoted ==
  /\ highestReturned' =
       IF Returns /\ lastNumbering'.numId > highestReturned
       THEN lastNumbering'.numId ELSE highestReturned
  /\ highestReturnedSinceClear' =
       IF lastNumbering'.op = "clear" THEN 0
       ELSE IF Returns /\ lastNumbering'.numId > highestReturnedSinceClear
       THEN lastNumbering'.numId ELSE highestReturnedSinceClear
  /\ UNCHANGED imageManagerVars
  /\ UNCHANGED laterVars

\* the create operations are called while the ids they mint stay within the bounds
MayCreateList == nextAbstractNumId <= MaxAbstractNumId /\ nextNumId <= MaxNumId

NumberingInit ==
  /\ ImageManagerInit(MaxImageCount)
  /\ dataLoaded = [i \in Img |-> FALSE]
  /\ \E initializeDefaults \in BOOLEAN : NumberingManagerInit(initializeDefaults)
  /\ LaterInit({})

NumberingNext ==
  \/ /\ \E id \in AbstractNumId :
          AddAbstractNumbering(MakeAbstractNumbering(id, "custom"))
     /\ NumIdNoted
  \/ /\ \E numId \in NumId, a \in AbstractNumId : AddInstance(MakeInstance(numId, a))
     /\ NumIdNoted
  \/ /\ \E numId \in NumId, a \in AbstractNumId :
          AddNumberingInstance(MakeInstance(numId, a))
     /\ NumIdNoted
  \/ (\E a \in AbstractNumId : RemoveAbstractNumbering(a)) /\ NumIdNoted
  \/ (\E numId \in NumId : RemoveInstance(numId)) /\ NumIdNoted
  \/ MayCreateList /\ CreateBulletList /\ NumIdNoted
  \/ MayCreateList /\ CreateNumberedList /\ NumIdNoted
  \/ MayCreateList /\ CreateMultiLevelList /\ NumIdNoted
  \/ MayCreateList /\ CreateOutlineList /\ NumIdNoted
  \/ MayCreateList /\ CreateCustomList /\ NumIdNoted
  \/ /\ \E a \in AbstractNumId :
          /\ hasAbstractNumbering(a) => nextNumId <= MaxNumId
          /\ CreateInstance(a)
     /\ NumIdNoted
  \/ (\E usedNumIds \in SUBSET NumId : CleanupUnusedNumbering(usedNumIds)) /\ NumIdNoted
  \/ NumberingClear /\ NumIdNoted

SpecNumbering == NumberingInit /\ [][NumberingNext]_vars

(* ---------------------- generateNumberingXml, toXML -------------------- *)

\* A slip in getAllAbstractNumberings / getAllInstances: no sort.
SortByIdSkipped(ids) == ids

\* Array.prototype.sort((a, b) => a.id - b.id) on the ids of the objects
RECURSIVE SortById(_)
SortById(ids) ==
  IF ids = <<>> THEN <<>>
  ELSE LET rest   == SortById(Tail(ids))
           before == SelectSeq(rest, LAMBDA x : x < Head(ids))
           after  == SelectSeq(rest, LAMBDA x : ~(x < Head(ids)))
       IN before \o <<Head(ids)>> \o after

\* getAllAbstractNumberings(): Array.from(this.abstractNumberings.values()).sort(..)
getAllAbstractNumberings ==
  [p \in 1..Len(abstractOrder) |-> abstractNumberings[SortById(abstractOrder)[p]]]

\* Array.from(this.instances.values()).sort(..), from the insertion order
getAllInstancesInOrder ==
  [p \in 1..Len(instanceOrder) |-> instances[SortById(instanceOrder)[p]]]

\* AbstractNumbering.toXML(): <w:abstractNum w:abstractNumId="...">
AbstractNumberingToXML(abstractNumbering) ==
  [name |-> <<"w", ":", "a", "b", "s", "t", "r", "a", "c", "t", "N", "u", "m">>,
   id   |-> NumberToString(abstractNumbering.abstractNumId)]

\* NumberingInstance.toXML(): <w:num w:numId="...">
InstanceToXML(instance) ==
  [name |-> <<"w", ":", "n", "u", "m">>, id |-> NumberToString(instance.numId)]

\* the children array built by generateNumberingXml and by toXML
NumberingChildren ==
  [p \in 1..Len(getAllAbstractNumberings) |->
     AbstractNumberingToXML(getAllAbstractNumberings[p])]
  \o [p \in 1..Len(getAllInstancesInOrder) |->
        InstanceToXML(getAllInstancesInOrder[p])]

NumberingRootName == <<"w", ":", "n", "u", "m", "b", "e", "r", "i", "n", "g">>

\* generateNumberingXml(): the document text, with the XML declaration
GenerateNumberingXml ==
  /\ numberingXml' = [op |-> "generateNumberingXml", declaration |-> TRUE,
                      name |-> NumberingRootName, children |-> NumberingChildren]
  /\ lastNumbering' = NumberingCall("generateNumberingXml", FALSE, 0, FALSE, 0, 0)
  /\ UNCHANGED <<abstractNumberings, instances, nextAbstractNumId, nextNumId,
                 highestReturned, highestReturnedSinceClear>>
  /\ UNCHANGED <<abstractOrder, instanceOrder>>
  /\ UNCHANGED imageManagerVars
  /\ UNCHANGED otherThanXml

\* toXML(): the element tree
ToXML ==
  /\ numberingXml' = [op |-> "toXML", declaration |-> FALSE,
                      name |-> NumberingRootName, children |-> NumberingChildren]
  /\ lastNumbering' = NumberingCall("toXML", FALSE, 0, FALSE, 0, 0)
  /\ UNCHANGED <<abstractNumberings, instances, nextAbstractNumId, nextNumId,
                 highestReturned, highestReturnedSinceClear>>
  /\ UNCHANGED <<abstractOrder, instanceOrder>>
  /\ UNCHANGED imageManagerVars
  /\ UNCHANGED otherThanXml

\* Map insertion order: set() of a new key appends it, set() of a present key
\* keeps its place, delete() takes the key out
OrderAfter(order, keysBefore, keysAfter) ==
  SelectSeq(order, LAMBDA k : k \in keysAfter)
    \o AscendingIds(keysAfter \ keysBefore)

\* bookkeeping of the insertion order of the two maps
OrderNoted ==
  /\ abstractOrder' = OrderAfter(abstractOrder, DOMAIN abstractNumberings,
                                 DOMAIN abstractNumberings')
  /\ instanceOrder' = OrderAfter(instanceOrder, DOMAIN instances, DOMAIN instances')
  /\ numberingXml' = NoXml
  /\ UNCHANGED <<highestReturned, highestReturnedSinceClear>>
  /\ UNCHANGED imageManagerVars
  /\ UNCHANGED otherThanXml

\* one call of an operation that changes the stores
NumberingOperation ==
  \/ \E id \in AbstractNumId : AddAbstractNumbering(MakeAbstractNumbering(id, "custom"))
  \/ \E numId \in NumId, a \in AbstractNumId : AddInstance(MakeInstance(numId, a))
  \/ \E a \in AbstractNumId : RemoveAbstractNumbering(a)
  \/ \E numId \in NumId : RemoveInstance(numId)
  \/ MayCreateList /\ CreateBulletList
  \/ \E a \in AbstractNumId :
       /\ hasAbstractNumbering(a) => nextNumId <= MaxNumId
       /\ CreateInstance(a)
  \/ NumberingClear

NumberingXmlInit ==
  /\ ImageManagerInit(MaxImageCount)
  /\ dataLoaded = [i \in Img |-> FALSE]
  /\ \E initializeDefaults \in BOOLEAN :
       /\ NumberingManagerInit(initializeDefaults)
       /\ NumberingOrderInit(initializeDefaults)
  /\ LaterInit({"xml"})

NumberingXmlNext ==
  \/ NumberingOperation /\ OrderNoted
  \/ GenerateNumberingXml
  \/ ToXML

SpecNumberingXml == NumberingXmlInit /\ [][NumberingXmlNext]_vars

(* ----------------------------- indentation ----------------------------- *)

MinLevel == 0
MaxLevel == 8
StandardLeftIndent == 720
StandardHangingIndent == 360

\* the level arguments that are passed: every valid level and one beyond each end
LevelInputs == (MinLevel - 1)..(MaxLevel + 1)

\* A slip in the range test: level 9 is let through.
LevelOutOfRangeOneMore(level) == level < MinLevel \/ level > MaxLevel + 1

\* level < 0 || level > 8
LevelOutOfRange(level) == level < MinLevel \/ level > MaxLevel

\* getStandardIndentation(level): what it returns, or that it throws
getStandardIndentation(level) ==
  IF LevelOutOfRange(level)
  THEN [error |-> TRUE, leftIndent |-> 0, hangingIndent |-> 0]
  ELSE [error |-> FALSE,
        leftIndent |-> StandardLeftIndent * (level + 1),
        hangingIndent |-> StandardHangingIndent]

\* a call of getStandardIndentation(level)
GetStandardIndentation(level) ==
  /\ lastIndentation' =
       IndentationCall("getStandardIndentation",
                       getStandardIndentation(level).error, FALSE, 0,
                       getStandardIndentation(level).leftIndent,
                       getStandardIndentation(level).hangingIndent)
  /\ UNCHANGED levels

\* A NumberingLevel's indentation: new NumberingLevel({ level, leftIndent, hangingIndent })
MakeLevel(leftIndent, hangingIndent) ==
  [leftIndent |-> leftIndent, hangingIndent |-> hangingIndent]

\* the levels of AbstractNumbering.createBulletList(id): 9 levels at their defaults
DefaultLevels ==
  [L \in MinLevel..MaxLevel |->
     MakeLevel(StandardLeftIndent * (L + 1), StandardHangingIndent)]

\* the levels passed to createCustomList: level 0 only, indented by hand
CustomLevels == [L \in {MinLevel} |-> MakeLevel(1440, 0)]

\* A slip in the clamp: the requested indent is passed on as it is.
ClampSkipped(indent) == indent

\* Math.max(0, indent)
Clamp(indent) == IF indent > 0 THEN indent ELSE 0

\* the optional argument hangingIndent, passed or left out
HangingGiven(hangingIndent) == [given |-> TRUE, value |-> hangingIndent]

HangingOmitted == [given |-> FALSE, value |-> 0]

\* hangingIndent: number = 360
DefaultHanging(hangingIndent) ==
  IF hangingIndent.given THEN hangingIndent.value ELSE StandardHangingIndent

\* setListIndentation(numId, level, leftIndent, hangingIndent)
SetListIndentation(numId, level, leftIndent, hangingIndent) ==
  LET left    == Clamp(leftIndent)
      hanging == Clamp(DefaultHanging(hangingIndent))
  IN IF LevelOutOfRange(level)
     THEN /\ lastIndentation' = IndentationCall("setListIndentation", TRUE, FALSE, 0, 0, 0)
          /\ UNCHANGED levels
     ELSE IF numId \notin DOMAIN instances
     THEN /\ lastIndentation' = IndentationCall("setListIndentation", FALSE, FALSE, 0, 0, 0)
          /\ UNCHANGED levels
     ELSE IF instances[numId].abstractNumId \notin DOMAIN abstractNumberings
     THEN /\ lastIndentation' = IndentationCall("setListIndentation", FALSE, FALSE, 0, 0, 0)
          /\ UNCHANGED levels
     ELSE IF level \notin DOMAIN levels[instances[numId].abstractNumId]
     THEN /\ lastIndentation' = IndentationCall("setListIndentation", FALSE, FALSE, 0, 0, 0)
          /\ UNCHANGED levels
     ELSE IF left < 0
     THEN \* NumberingLevel.setLeftIndent throws 'Left indent must be non-negative'
          /\ lastIndentation' = IndentationCall("setListIndentation", TRUE, FALSE, 0, 0, 0)
          /\ UNCHANGED levels
     ELSE IF hanging < 0
     THEN \* setHangingIndent throws after setLeftIndent has stored its value
          /\ lastIndentation' = IndentationCall("setListIndentation", TRUE, FALSE, 0, 0, 0)
          /\ levels' = [levels EXCEPT ![instances[numId].abstractNumId][level].leftIndent
                                        = left]
     ELSE /\ lastIndentation' = IndentationCall("setListIndentation", FALSE, TRUE, 0,
                                                left, hanging)
          /\ levels' = [levels EXCEPT ![instances[numId].abstractNumId][level] =
                                        MakeLevel(left, hanging)]

\* A slip in the loop of normalizeListIndentation: level 0 is left as it is.
StandardLevelsButFirst(perLevel) ==
  [L \in DOMAIN perLevel |->
     IF L = MinLevel THEN perLevel[L]
     ELSE MakeLevel(getStandardIndentation(L).leftIndent,
                    getStandardIndentation(L).hangingIndent)]

\* the loop of normalizeListIndentation over abstractNum.getAllLevels()
StandardLevels(perLevel) ==
  [L \in DOMAIN perLevel |->
     MakeLevel(getStandardIndentation(L).leftIndent,
               getStandardIndentation(L).hangingIndent)]

\* does normalizeListIndentation(numId) find the instance and its abstract numbering
CanNormalize(numId) ==
  /\ numId \in DOMAIN instances
  /\ instances[numId].abstractNumId \in DOMAIN abstractNumberings

\* the levels after normalizeListIndentation(numId)
LevelsAfterNormalize(allLevels, numId) ==
  IF CanNormalize(numId)
  THEN [allLevels EXCEPT ![instances[numId].abstractNumId] = StandardLevels(@)]
  ELSE allLevels

\* normalizeListIndentation(numId)
NormalizeListIndentation(numId) ==
  /\ levels' = LevelsAfterNormalize(levels, numId)
  /\ lastIndentation' = IndentationCall("normalizeListIndentation", FALSE,
                                        CanNormalize(numId), 0, 0, 0)

\* the levels after the loop of normalizeAllListIndentation over these numIds
RECURSIVE LevelsAfterNormalizeAll(_, _)
LevelsAfterNormalizeAll(allLevels, numIds) ==
  IF numIds = <<>> THEN allLevels
  ELSE LevelsAfterNormalizeAll(LevelsAfterNormalize(allLevels, Head(numIds)),
                               Tail(numIds))

\* normalizeAllListIndentation(): returns the number of instances updated
NormalizeAllListIndentation ==
  /\ levels' = LevelsAfterNormalizeAll(levels, AscendingIds(DOMAIN instances))
  /\ lastIndentation' =
       IndentationCall("normalizeAllListIndentation", FALSE, FALSE,
                       Cardinality({n \in DOMAIN instances : CanNormalize(n)}), 0, 0)

\* the operations on the stores leave the indentation record alone; the
\* generated XML and the returned numIds are not followed here
StoresChanged ==
  /\ UNCHANGED lastIndentation
  /\ UNCHANGED <<highestReturned, highestReturnedSinceClear>>
  /\ UNCHANGED imageManagerVars
  /\ UNCHANGED otherThanIndent

\* the indentation methods leave the stores alone
StoresRead ==
  /\ UNCHANGED <<abstractNumberings, instances, nextAbstractNumId, nextNumId,
                 lastNumbering, highestReturned, highestReturnedSinceClear>>
  /\ UNCHANGED imageManagerVars
  /\ UNCHANGED otherThanIndent

\* the indents that callers request
LeftInputs == {-720, 1440}

HangingInputs == {HangingGiven(-360), HangingOmitted}

\* the levels setListIndentation is asked to change
SetLevelInputs == {MinLevel - 1, MinLevel, MaxLevel, MaxLevel + 1}

IndentationSpecInit ==
  /\ ImageManagerInit(MaxImageCount)
  /\ dataLoaded = [i \in Img |-> FALSE]
  /\ NumberingManagerInit(FALSE)
  /\ IndentationInit
  /\ LaterInit({"indent"})

IndentationNext ==
  \/ /\ MayCreateList /\ CreateBulletList
     /\ levels' = IdMapSet(levels, nextAbstractNumId, DefaultLevels)
     /\ StoresChanged
  \/ /\ MayCreateList /\ CreateCustomList
     /\ levels' = IdMapSet(levels, nextAbstractNumId, CustomLevels)
     /\ StoresChanged
  \/ /\ \E a \in AbstractNumId :
          /\ hasAbstractNumbering(a) => nextNumId <= MaxNumId
          /\ CreateInstance(a)
     /\ UNCHANGED levels
     /\ StoresChanged
  \/ /\ \E a \in AbstractNumId :
          /\ RemoveAbstractNumbering(a)
          /\ levels' = IdMapDelete(levels, {a})
     /\ StoresChanged
  \/ /\ NumberingClear
     /\ levels' = EmptyIdMap
     /\ StoresChanged
  \/ (\E level \in LevelInputs : GetStandardIndentation(level)) /\ StoresRead
  \/ /\ \E numId \in NumId, level \in SetLevelInputs,
          leftIndent \in LeftInputs, hangingIndent \in HangingInputs :
          SetListIndentation(numId, level, leftIndent, hangingIndent)
     /\ StoresRead
  \/ (\E numId \in NumId : NormalizeListIndentation(numId)) /\ StoresRead
  \/ NormalizeAllListIndentation /\ StoresRead

SpecIndentation == IndentationSpecInit /\ [][IndentationNext]_vars

(* ===================== CommentManager (comments) ====================== *)
(* src/src/elements/CommentManager.ts.  The Comment class is not part of    *)
(* the sources at hand: a comment is modelled by the id that setId() gave   *)
(* it and by its parent id (isReply() holds exactly when it has one).       *)
(* Every registered comment is a new Comment object, so the id of a comment *)
(* in a reply list is the id it was registered under.                       *)

\* the highest id that register() may assign
MaxCommentId == 2

CommentId == 0..MaxCommentId

\* getParentId() of a comment that is not a reply
NoParent == -1

\* Comment.create(..) with NoParent, Comment.createReply(parentId, ..) otherwise
MakeComment(parentId) == [id |-> NoComment, parentId |-> parentId]

\* comment.isReply() && comment.getParentId() !== undefined
isReply(comment) == comment.parentId # NoParent

\* the elements of a sequence
Range(seq) == {seq[i] : i \in DOMAIN seq}

NextCommentIdStuck(id) == id

\* this.nextId++
NextCommentId(id) == id + 1

\* register(comment), called as method op
Register(op, comment) ==
  LET id         == nextId
      registered == [comment EXCEPT !.id = id]
      stored     == IdMapSet(comments, id,
                             [comment |-> registered, replies |-> <<>>])
  IN /\ nextId' = NextCommentId(nextId)
     /\ comments' =
          IF isReply(registered) /\ registered.parentId \in DOMAIN stored
          THEN [stored EXCEPT ![registered.parentId].replies = Append(@, id)]
          ELSE stored
     /\ commentOrder' =
          IF id \in DOMAIN comments THEN commentOrder
          ELSE Append(commentOrder, id)
     /\ lastComment' = CommentCall(op, FALSE, id, FALSE, <<>>)

RegisterComment(comment) == Register("register", comment)

\* createComment(author, content, initials)
CreateComment == Register("createComment", MakeComment(NoParent))

ParentMissingUnchecked(parentCommentId) == FALSE

\* !this.comments.has(parentCommentId)
ParentMissing(parentCommentId) == parentCommentId \notin DOMAIN comments

\* createReply(parentCommentId, author, content, initials)
CreateReply(parentCommentId) ==
  IF ParentMissing(parentCommentId)
  THEN /\ lastComment' = CommentCall("createReply", TRUE, NoComment, FALSE, <<>>)
       /\ UNCHANGED <<comments, commentOrder, nextId>>
  ELSE Register("createReply", MakeComment(parentCommentId))

\* removeComment(id)
RemoveComment(id) ==
  IF id \notin DOMAIN comments
  THEN /\ lastComment' = CommentCall("removeComment", FALSE, NoComment, FALSE, <<>>)
       /\ UNCHANGED <<comments, commentOrder, nextId>>
  ELSE LET withoutReplies == IdMapDelete(comments, Range(comments[id].replies))
       IN /\ comments' = IdMapDelete(withoutReplies, {id})
          /\ commentOrder' =
               SelectSeq(commentOrder, LAMBDA k : k \in DOMAIN comments')
          /\ lastComment' =
               CommentCall("removeComment", FALSE, NoComment,
                           id \in DOMAIN withoutReplies, <<>>)
          /\ UNCHANGED nextId

\* clear()
CommentClear ==
  /\ comments' = EmptyIdMap
  /\ commentOrder' = <<>>
  /\ nextId' = 0
  /\ lastComment' = CommentCall("clear", FALSE, NoComment, FALSE, <<>>)

\* getComment(id) is defined
hasComment(id) == id \in DOMAIN comments

\* getCount()
getCount == Cardinality(DOMAIN comments)

\* getAllCommentsWithReplies(), as the ids of the comments
getAllCommentsWithReplies ==
  [i \in DOMAIN commentOrder |-> comments[commentOrder[i]].comment]

\* getAllComments(): the top-level comments only
getAllComments ==
  SelectSeq(getAllCommentsWithReplies, LAMBDA c : ~isReply(c))

\* getReplies(commentId), as the ids of the replies
getReplies(commentId) ==
  IF commentId \in DOMAIN comments THEN comments[commentId].replies ELSE <<>>

\* hasReplies(commentId)
hasReplies(commentId) ==
  IF commentId \in DOMAIN comments
  THEN Len(comments[commentId].replies) > 0
  ELSE FALSE

\* getCommentThread(commentId): undefined for an absent id and for a reply,
\* otherwise the comment with a copy of its replies (as ids)
getCommentThread(commentId) ==
  IF commentId \notin DOMAIN comments \/ isReply(comments[commentId].comment)
  THEN [given |-> FALSE, comment |-> MakeComment(NoParent), replies |-> <<>>]
  ELSE [given   |-> TRUE,
        comment |-> comments[commentId].comment,
        replies |-> comments[commentId].replies]

\* commentToXmlString(comment): the w:id and w:parentId attributes of the
\* w:comment element
CommentToXml(comment) ==
  [id          |-> NumberToString(comment.id),
   hasParentId |-> isReply(comment),
   parentId    |-> IF isReply(comment) THEN NumberToString(comment.parentId)
                   ELSE <<>>]

\* generateCommentsXml()
GenerateCommentsXml ==
  /\ lastComment' =
       CommentCall("generateCommentsXml", FALSE, NoComment, FALSE,
                   [i \in DOMAIN getAllCommentsWithReplies |->
                      CommentToXml(getAllCommentsWithReplies[i])])
  /\ UNCHANGED <<comments, commentOrder, nextId>>

\* the methods that register a comment
RegisterOps == {"register", "createComment", "createReply"}

\* bookkeeping: the number of registrations since construction or clear()
RegistrationsNoted ==
  /\ registrations' =
       IF lastComment'.op = "clear" THEN 0
       ELSE IF lastComment'.op \in RegisterOps /\ ~lastComment'.error
            THEN registrations + 1
            ELSE registrations
  /\ UNCHANGED <<imageManagerVars, numberingVars, otherThanComments>>

\* the comments a caller passes to register()
CommentInputs == {MakeComment(p) : p \in {NoParent} \cup CommentId}

MayRegister == nextId <= MaxCommentId

CommentSpecInit ==
  /\ ImageManagerInit(MaxImageCount)
  /\ dataLoaded = [i \in Img |-> FALSE]
  /\ NumberingManagerInit(FALSE)
  /\ CommentManagerInit
  /\ LaterInit({"comments"})

CommentNext ==
  \/ /\ MayRegister
     /\ \E comment \in CommentInputs : RegisterComment(comment)
     /\ RegistrationsNoted
  \/ MayRegister /\ CreateComment /\ RegistrationsNoted
  \/ /\ \E parentCommentId \in CommentId :
          /\ ParentMissing(parentCommentId) \/ MayRegister
          /\ CreateReply(parentCommentId)
     /\ RegistrationsNoted
  \/ (\E id \in CommentId : RemoveComment(id)) /\ RegistrationsNoted
  \/ CommentClear /\ RegistrationsNoted
  \/ GenerateCommentsXml /\ RegistrationsNoted

SpecComments == CommentSpecInit /\ [][CommentNext]_vars

\* the manager used through createComment, createReply, removeComment and
\* clear only: every reply is made to a comment that is in the store
CommentAuthoringNext ==
  \/ MayRegister /\ CreateComment /\ RegistrationsNoted
  \/ /\ \E parentCommentId \in CommentId :
          /\ ParentMissing(parentCommentId) \/ MayRegister
          /\ CreateReply(parentCommentId)
     /\ RegistrationsNoted
  \/ (\E id \in CommentId : RemoveComment(id)) /\ RegistrationsNoted
  \/ CommentClear /\ RegistrationsNoted

SpecCommentAuthoring == CommentSpecInit /\ [][CommentAuthoringNext]_vars

(* ========================= TableOfContents ============================ *)
(* src/src/elements/TableOfContents.ts.  The fields numbered,               *)
(* numberingFormat, noIndent, customIndents, spaceBetweenEntries and        *)
(* hyperlinkColor are written by the constructor, their setters and         *)
(* configure and read by their getters only; toXML() and                    *)
(* buildFieldInstruction() do not read them and they are not part of the    *)
(* state.  Strings are built as sequences of pieces.                        *)

\* setLevels accepts the levels MinTocLevels..MaxTocLevels
MinTocLevels == 1
MaxTocLevels == 9

\* the number of runs that toXML() requires of the field paragraph
RequiredFieldRuns == 5

\* setTitle(title)
SetTitle(title) ==
  /\ toc' = [toc EXCEPT !.title = title]
  /\ lastToc' = TocCall("setTitle", FALSE, <<>>)

\* setLevels(levels)
SetLevels(tocLevels) ==
  IF tocLevels < MinTocLevels \/ tocLevels > MaxTocLevels
  THEN /\ lastToc' = TocCall("setLevels", TRUE, <<>>)
       /\ UNCHANGED toc
  ELSE /\ toc' = [toc EXCEPT !.levels = tocLevels]
       /\ lastToc' = TocCall("setLevels", FALSE, <<>>)

\* setShowPageNumbers(show)
SetShowPageNumbers(show) ==
  /\ toc' = [toc EXCEPT !.showPageNumbers = show]
  /\ lastToc' = TocCall("setShowPageNumbers", FALSE, <<>>)

\* setUseHyperlinks(use)
SetUseHyperlinks(use) ==
  /\ toc' = [toc EXCEPT !.useHyperlinks = use]
  /\ lastToc' = TocCall("setUseHyperlinks", FALSE, <<>>)

\* setIncludeStyles(styles)
SetIncludeStyles(styles) ==
  /\ toc' = [toc EXCEPT !.includeStyles = Given(styles)]
  /\ lastToc' = TocCall("setIncludeStyles", FALSE, <<>>)

\* if (options.x !== undefined) this.x = options.x
Configured(option, current) == IF option.given THEN option.value ELSE current

\* configure(options)
Configure(options) ==
  /\ toc' =
       [title           |-> Configured(options.title, toc.title),
        levels          |-> Configured(options.levels, toc.levels),
        includeStyles   |-> IF options.includeStyles.given
                            THEN options.includeStyles ELSE toc.includeStyles,
        showPageNumbers |-> Configured(options.showPageNumbers, toc.showPageNumbers),
        useHyperlinks   |-> Configured(options.useHyperlinks, toc.useHyperlinks),
        tabLeader       |-> Configured(options.tabLeader, toc.tabLeader),
        fieldSwitches   |-> IF options.fieldSwitches.given
                            THEN options.fieldSwitches ELSE toc.fieldSwitches]
  /\ lastToc' = TocCall("configure", FALSE, <<>>)

\* includeStyles.map(s => `"${s}",1`).join(' ')
RECURSIVE StylesString(_)
StylesString(styles) ==
  IF styles = <<>> THEN <<>>
  ELSE (IF Len(styles) > 1
        THEN StylesString(SubSeq(styles, 1, Len(styles) - 1)) \o <<" ">>
        ELSE <<>>)
       \o <<"\"", styles[Len(styles)], "\",1">>

\* leaderMap[this.tabLeader]
LeaderLetter(tabLeader) ==
  CASE tabLeader = "hyphen"     -> "h"
    [] tabLeader = "underscore" -> "u"
    [] tabLeader = "none"       -> "n"
    [] OTHER                    -> "undefined"

\* buildFieldInstruction()
buildFieldInstruction ==
  <<"TOC">>
  \o (IF toc.includeStyles.given /\ Len(toc.includeStyles.value) > 0
      THEN <<" \\t ">> \o StylesString(toc.includeStyles.value)
      ELSE <<" \\o \"1-">> \o NumberToString(toc.levels) \o <<"\"">>)
  \o (IF toc.useHyperlinks THEN <<" \\h">> ELSE <<>>)
  \o (IF ~toc.showPageNumbers THEN <<" \\n">> ELSE <<>>)
  \o (IF toc.tabLeader # "dot"
      THEN <<" \\p \"", LeaderLetter(toc.tabLeader), "\"">> ELSE <<>>)
  \o (IF toc.fieldSwitches.given /\ toc.fieldSwitches.value # ""
      THEN <<" ", toc.fieldSwitches.value>> ELSE <<>>)
  \o <<" \\* MERGEFORMAT">>

\* An XMLElement below a run or a paragraph: its name, the value of its one
\* attribute, its text and the names of its child elements.
Leaf(name, attribute, text, children) ==
  [name |-> name, attribute |-> attribute, text |-> text, children |-> children]

\* An XMLElement with element children
Element(name, children) == [name |-> name, children |-> children]

\* the w:r elements pushed by toXML()
FieldCharRun(fldCharType) ==
  Element("w:r", <<Leaf("w:fldChar", fldCharType, <<>>, <<>>)>>)

InstructionRun(instruction) ==
  Element("w:r", <<Leaf("w:instrText", "preserve", instruction, <<>>)>>)

ContentRun ==
  Element("w:r", <<Leaf("w:rPr", "", <<>>, <<"w:noProof">>),
                   Leaf("w:t", "", <<"Right-click to update field.">>, <<>>)>>)

\* the title paragraph
TitleParagraph(title) ==
  Element("w:p",
          <<Element("w:pPr", <<Leaf("w:pStyle", "TOCHeading", <<>>, <<>>)>>),
            Element("w:r", <<Leaf("w:t", "", <<title>>, <<>>)>>)>>)

FieldRunsSeparateFirst(instruction) ==
  <<FieldCharRun("begin"), FieldCharRun("separate"),
    InstructionRun(instruction), ContentRun, FieldCharRun("end")>>

\* tocParagraph.children after the five push() calls
FieldRuns(instruction) ==
  <<FieldCharRun("begin"), InstructionRun(instruction),
    FieldCharRun("separate"), ContentRun, FieldCharRun("end")>>

\* toXML()
TableOfContentsToXML ==
  LET titleElements == IF toc.title # "" THEN <<TitleParagraph(toc.title)>>
                       ELSE <<>>
      tocParagraph  == Element("w:p", FieldRuns(buildFieldInstruction))
  IN /\ lastToc' =
          IF Len(tocParagraph.children) # RequiredFieldRuns
          THEN TocCall("toXML", TRUE, <<>>)
          ELSE TocCall("toXML", FALSE, Append(titleElements, tocParagraph))
     /\ UNCHANGED toc

\* the property values that callers pass
TitleInputs == {"", "Contents"}
TocLevelsInputs == {MinTocLevels - 1, MaxTocLevels, MaxTocLevels + 1}
IncludeStylesInputs == {<<>>, <<"Heading1", "Heading3">>}
TabLeaderInputs == {"hyphen"}
FieldSwitchesInputs == {"\\b Chapter"}

\* a property left out, or given with one of the values
Optional(values, placeholder) ==
  {Undefined(placeholder)} \cup {Given(v) : v \in values}

\* the properties / options objects that callers pass
TOCPropertiesInputs ==
  [title           : Optional(TitleInputs, ""),
   levels          : Optional(TocLevelsInputs, 0),
   includeStyles   : Optional(IncludeStylesInputs, <<>>),
   showPageNumbers : Optional(BOOLEAN, FALSE),
   useHyperlinks   : Optional(BOOLEAN, FALSE),
   tabLeader       : Optional(TabLeaderInputs, ""),
   fieldSwitches   : Optional(FieldSwitchesInputs, "")]

\* the other stores are left alone
TocOnly == UNCHANGED <<imageManagerVars, numberingVars, otherThanToc>>

TocSpecInit ==
  /\ ImageManagerInit(MaxImageCount)
  /\ dataLoaded = [i \in Img |-> FALSE]
  /\ NumberingManagerInit(FALSE)
  /\ \E properties \in TOCPropertiesInputs : TableOfContentsInit(properties)
  /\ LaterInit({"toc"})

TocNext ==
  \/ (\E title \in TitleInputs : SetTitle(title)) /\ TocOnly
  \/ (\E tocLevels \in TocLevelsInputs : SetLevels(tocLevels)) /\ TocOnly
  \/ (\E show \in BOOLEAN : SetShowPageNumbers(show)) /\ TocOnly
  \/ (\E use \in BOOLEAN : SetUseHyperlinks(use)) /\ TocOnly
  \/ (\E styles \in IncludeStylesInputs : SetIncludeStyles(styles)) /\ TocOnly
  \/ (\E options \in TOCPropertiesInputs : Configure(options)) /\ TocOnly
  \/ TableOfContentsToXML /\ TocOnly

SpecTableOfContents == TocSpecInit /\ [][TocNext]_vars

(* =============================== Style ================================ *)
(* The Style class of src/src/formatting/NumberingManager.ts (lines 852 to  *)
(* 2046).  ParagraphFormatting and RunFormatting are declared elsewhere:    *)
(* they are modelled by one property each (alignment, bold).  The           *)
(* properties that only their own setter writes (qFormat, semiHidden,       *)
(* locked, ...) are not followed.                                           *)

\* the smallest and the largest uiPriority that setUiPriority accepts
MinUiPriority == 0
MaxUiPriority == 99

\* getProperties(): { ...this.properties }
getProperties == style

\* setBasedOn(styleId)
SetBasedOn(styleId) ==
  /\ style' = [style EXCEPT !.basedOn = Given(styleId)]
  /\ lastStyle' = StyleCall("setBasedOn", FALSE)

\* setLink(styleId)
SetLink(styleId) ==
  /\ style' = [style EXCEPT !.link = Given(styleId)]
  /\ lastStyle' = StyleCall("setLink", FALSE)

\* setUiPriority(priority)
SetUiPriority(priority) ==
  IF priority < MinUiPriority \/ priority > MaxUiPriority
  THEN /\ lastStyle' = StyleCall("setUiPriority", TRUE)
       /\ UNCHANGED style
  ELSE /\ style' = [style EXCEPT !.uiPriority = Given(priority)]
       /\ lastStyle' = StyleCall("setUiPriority", FALSE)

\* if (!this.properties.tableStyle) this.properties.tableStyle = {}
WithTableStyle(properties) ==
  IF properties.tableStyle.given THEN properties
  ELSE [properties EXCEPT !.tableStyle = Given(EmptyTableStyle)]

\* setRowBandSize(size)
SetRowBandSize(size) ==
  IF size < 0
  THEN /\ style' = WithTableStyle(style)
       /\ lastStyle' = StyleCall("setRowBandSize", TRUE)
  ELSE /\ style' = [WithTableStyle(style) EXCEPT
                      !.tableStyle.value.rowBandSize = Given(size)]
       /\ lastStyle' = StyleCall("setRowBandSize", FALSE)

\* setColBandSize(size)
SetColBandSize(size) ==
  IF size < 0
  THEN /\ style' = WithTableStyle(style)
       /\ lastStyle' = StyleCall("setColBandSize", TRUE)
  ELSE /\ style' = [WithTableStyle(style) EXCEPT
                      !.tableStyle.value.colBandSize = Given(size)]
       /\ lastStyle' = StyleCall("setColBandSize", FALSE)

\* if (otherProps.x) this.properties.x = otherProps.x, for an optional string
MergedString(other, current) ==
  IF other.given /\ other.value # "" THEN other ELSE current

\* mergeWith(otherStyle), otherProps being otherStyle.getProperties()
MergeWith(otherProps) ==
  /\ style' =
       [style EXCEPT
          !.paragraphFormatting =
             IF otherProps.paragraphFormatting.given
             THEN Given([alignment |->
                    IF otherProps.paragraphFormatting.value.alignment # ""
                    THEN otherProps.paragraphFormatting.value.alignment
                    ELSE IF style.paragraphFormatting.given
                         THEN style.paragraphFormatting.value.alignment
                         ELSE ""])
             ELSE @,
          !.runFormatting =
             IF otherProps.runFormatting.given
             THEN otherProps.runFormatting ELSE @,
          !.name = IF otherProps.name # "" THEN otherProps.name ELSE @,
          !.basedOn = MergedString(otherProps.basedOn, @),
          !.next = MergedString(otherProps.next, @)]
  /\ lastStyle' = StyleCall("mergeWith", FALSE)

\* the style ids that callers use
StyleIdInputs == {"Normal", "Heading1"}

\* the properties given to the constructor of the style
StylePropertiesInputs ==
  {[MakeStyleProperties(styleId, styleId, type) EXCEPT
      !.basedOn = basedOn, !.link = link] :
     styleId \in StyleIdInputs, type \in {"paragraph", "table"},
     basedOn \in Optional(StyleIdInputs, ""),
     link \in Optional(StyleIdInputs, "")}

\* the properties of the styles given to mergeWith
OtherStyleInputs ==
  {[MakeStyleProperties("Override", name, "paragraph") EXCEPT
      !.basedOn = basedOn, !.next = next,
      !.paragraphFormatting = paragraphFormatting,
      !.runFormatting = runFormatting] :
     name \in {"", "Override"},
     basedOn \in Optional(StyleIdInputs, ""),
     next \in Optional({"Normal"}, ""),
     paragraphFormatting \in Optional({[alignment |-> "center"]}, [alignment |-> ""]),
     runFormatting \in Optional({[bold |-> TRUE]}, [bold |-> FALSE])}

StyleSpecInit ==
  /\ ImageManagerInit(MaxImageCount)
  /\ dataLoaded = [i \in Img |-> FALSE]
  /\ NumberingManagerInit(FALSE)
  /\ \E properties \in StylePropertiesInputs : StyleInit(properties)
  /\ LaterInit({"style"})

\* the other stores are left alone
StyleOnly == UNCHANGED <<imageManagerVars, numberingVars, otherThanStyle>>

StyleNext ==
  \/ (\E styleId \in StyleIdInputs : SetBasedOn(styleId)) /\ StyleOnly
  \/ (\E styleId \in StyleIdInputs : SetLink(styleId)) /\ StyleOnly
  \/ /\ \E priority \in {MinUiPriority - 1, MinUiPriority,
                         MaxUiPriority, MaxUiPriority + 1} :
          SetUiPriority(priority)
     /\ StyleOnly
  \/ (\E size \in {-1, 1} : SetRowBandSize(size)) /\ StyleOnly
  \/ (\E size \in {-1, 1} : SetColBandSize(size)) /\ StyleOnly
  \/ (\E otherProps \in OtherStyleInputs : MergeWith(otherProps)) /\ StyleOnly

SpecStyle == StyleSpecInit /\ [][StyleNext]_vars

(* ================== Structured Document Tag (w:sdt) =================== *)
(* StructuredDocumentTag, Document.toBuffer and Document.loadFromBuffer     *)
(* are not part of the sources at hand (only their tests are,               *)
(* src/tests/core/SDTParsing.test.ts).  The encoder and the decoder are     *)
(* modelled from the specification: encoding writes the control type as a   *)
(* property element inside w:sdtPr, followed by w:sdtContent with each      *)
(* child's own tree; decoding dispatches on the name of each child of       *)
(* w:sdtContent.                                                            *)

\* the deepest nesting of content controls that the caller builds
MaxSdtDepth == 3

\* the property element of w:sdtPr that carries the control type
ControlTypeElement(controlType) ==
  CASE controlType = "richText"  -> "w:richText"
    [] controlType = "plainText" -> "w:text"
    [] OTHER                     -> "w:unknown"

\* the control type that a property element of w:sdtPr stands for
ControlTypeOf(name) ==
  CASE name = "w:richText" -> "richText"
    [] name = "w:text"     -> "plainText"
    [] OTHER               -> ""

\* encoding: the tree of a body element
RECURSIVE ElementToXML(_)
ElementToXML(element) ==
  CASE element.kind = "paragraph" -> XmlNode("w:p", element.text, <<>>)
    [] element.kind = "table"     -> XmlNode("w:tbl", "", <<>>)
    [] OTHER ->
         XmlNode("w:sdt", "",
           <<XmlNode("w:sdtPr", "",
               <<XmlNode(ControlTypeElement(element.controlType), "", <<>>)>>),
             XmlNode("w:sdtContent", "",
               [i \in DOMAIN element.content |->
                  ElementToXML(element.content[i])])>>)

DecodedKindFlat(name) ==
  CASE name = "w:p"   -> "paragraph"
    [] name = "w:tbl" -> "table"
    [] OTHER          -> "skipped"

\* decoding: the kind of body element that a child's name selects
DecodedKind(name) ==
  CASE name = "w:p"   -> "paragraph"
    [] name = "w:tbl" -> "table"
    [] name = "w:sdt" -> "sdt"
    [] OTHER          -> "skipped"

\* the first child with the given name (there is one)
ChildNamed(node, name) ==
  node.children[CHOOSE i \in DOMAIN node.children : node.children[i].name = name]

\* decoding: the body element of a w:p, w:tbl or w:sdt element
RECURSIVE ParseElement(_)
ParseElement(node) ==
  CASE DecodedKind(node.name) = "paragraph" -> MakeParagraph(node.text)
    [] DecodedKind(node.name) = "table" -> BodyElement("table", "", "", <<>>)
    [] OTHER ->
         LET sdtPr    == ChildNamed(node, "w:sdtPr")
             children == SelectSeq(ChildNamed(node, "w:sdtContent").children,
                                   LAMBDA c : DecodedKind(c.name) # "skipped")
         IN MakeSdt(IF sdtPr.children = <<>> THEN ""
                    ELSE ControlTypeOf(sdtPr.children[1].name),
                    [i \in DOMAIN children |-> ParseElement(children[i])])

\* how deep the content controls of an element are nested
RECURSIVE SdtDepth(_)
SdtDepth(element) ==
  IF element.kind # "sdt" THEN 0
  ELSE LET depths == {SdtDepth(element.content[i]) : i \in DOMAIN element.content}
       IN 1 + (IF depths = {} THEN 0
               ELSE CHOOSE d \in depths : \A e \in depths : e <= d)

\* StructuredDocumentTag.create({ controlType, content }) around the control
\* built so far
CreateSdt(controlType, content) ==
  /\ sdt' = MakeSdt(controlType, content)
  /\ sdtBuffer' = XmlNode("", "", <<>>)
  /\ loadedSdt' = NoElement

\* doc.addBodyElement(sdt); doc.toBuffer()
ToBuffer ==
  /\ sdtBuffer' = ElementToXML(sdt)
  /\ loadedSdt' = NoElement
  /\ UNCHANGED sdt

\* Document.loadFromBuffer(buffer), then the content control among
\* getBodyElements()
LoadFromBuffer ==
  /\ loadedSdt' = ParseElement(sdtBuffer)
  /\ UNCHANGED <<sdt, sdtBuffer>>

\* the content sequences that the caller wraps around a content control
ContentAround(inner) ==
  {<<inner>>, <<MakeParagraph("First"), inner>>,
   <<inner, BodyElement("table", "", "", <<>>)>>}

\* the other stores are left alone
SdtOnly == UNCHANGED <<imageManagerVars, numberingVars, otherThanSdt>>

SdtSpecInit ==
  /\ ImageManagerInit(MaxImageCount)
  /\ dataLoaded = [i \in Img |-> FALSE]
  /\ NumberingManagerInit(FALSE)
  /\ \E first \in {MakeSdt("plainText", <<MakeParagraph("Inner content")>>),
                   MakeSdt("richText", <<>>)} : SdtInit(first)
  /\ LaterInit({"sdt"})

SdtNext ==
  \/ /\ SdtDepth(sdt) < MaxSdtDepth
     /\ \E controlType \in {"richText", "plainText"},
           content \in ContentAround(sdt) : CreateSdt(controlType, content)
     /\ SdtOnly
  \/ sdtBuffer.name = "" /\ ToBuffer /\ SdtOnly
  \/ sdtBuffer.name # "" /\ loadedSdt = NoElement /\ LoadFromBuffer /\ SdtOnly

SpecSdt == SdtSpecInit /\ [][SdtNext]_vars

(* ============================== claims ================================ *)

\* a number that is an integer in [1,50]
ValidConcurrency(c) == c.kind = "int" /\ c.floor >= 1 /\ c.floor <= 50

\* the batch a position of the snapshot belongs to
BatchOf(p) == (p - 1) \div bulk.concurrency

(* ---- C1 ---- *)
\* C1: any two registerImage calls that pass the same relationship id return
\* the same filename: a call that returns a filename for a relationship id
\* returns the filename the first call with that relationship id returned.
C1_SameRelIdSameFilename ==
  [][\A i \in Img, r \in RelId :
       (RegisterImage(i, r) /\ last'.error = "" /\ firstFilename[r] # NoFilename)
         => last'.filename = firstFilename[r]]_vars

(* ---- C2 ---- *)
\* C2: registerImage with a relationship id that already has an entry leaves
\* getImageCount() as it was and consumes no filename number and no docPr id,
\* whichever Image object is passed.
C2_ReRegisterMintsNothing ==
  [][\A i \in Img, r \in RelId :
       (r \in DOMAIN imagesByRelId /\ RegisterImage(i, r))
         => /\ Len(images') = Len(images)
            /\ nextImageNumber' = nextImageNumber
            /\ nextDocPrId' = nextDocPrId]_vars

(* ---- C3 ---- *)
\* C3 as stated: registerImage of a not-yet-registered, loaded image over the
\* single-image maximum fails with an error and leaves the store unchanged,
\* under any relationship id.
C3_OversizeAlwaysFails ==
  [][\A i \in Img, r \in RelId :
       (/\ ~MapHas(images, i)
        /\ dataLoaded[i]
        /\ ImageBytes(i) > MaxSingleImageSize
        /\ RegisterImage(i, r))
         => (last'.error # "" /\ UNCHANGED imVars)]_vars

\* C3 amended: registerImage of a not-yet-registered, loaded image over the
\* single-image maximum, under a relationship id that has no entry, fails with
\* an error and leaves the entries, the relationship-id map and both counters
\* unchanged.
C3_OversizeFailsUnderNewRelId ==
  [][\A i \in Img, r \in RelId :
       (/\ ~MapHas(images, i)
        /\ r \notin DOMAIN imagesByRelId
        /\ dataLoaded[i]
        /\ ImageBytes(i) > MaxSingleImageSize
        /\ RegisterImage(i, r))
         => (last'.error # "" /\ last'.filename = NoFilename /\ UNCHANGED imVars)]_vars

\* A registerImage call has just failed on the single-image size check.
C3_Witness ==
  /\ last.op = "registerImage"
  /\ last.error = "single-size"
  /\ getImageCount > 0

(* ---- C4 ---- *)
\* C4: registerImage of an unregistered image under an unregistered
\* relationship id fails with the count error when the store already holds
\* maxImageCount images (or more), and leaves the entries, the relationship-id
\* map and both counters unchanged.
C4_CountLimitFails ==
  [][\A i \in Img, r \in RelId :
       (/\ ~MapHas(images, i)
        /\ r \notin DOMAIN imagesByRelId
        /\ Len(images) >= MaxImageCount
        /\ RegisterImage(i, r))
         => (last'.error = "count" /\ last'.filename = NoFilename /\ UNCHANGED imVars)]_vars

\* A registerImage call has just failed on the count check of a full store.
C4_Witness ==
  /\ last.op = "registerImage"
  /\ last.error = "count"
  /\ getImageCount = MaxImageCount

(* ---- C5 ---- *)
\* C5: the bulk load applies the size checks registerImage skipped for an
\* image registered unloaded: it does not resolve without error leaving loaded
\* in the store an image whose byte length is over the single-image maximum
\* (such an image can only have been registered while it was not loaded).
C5_BulkLoadDetectsOversize ==
  [][(bulk.status = "running" /\ bulk'.status = "resolved")
       => \A p \in 1..Len(images') :
            dataLoaded'[images'[p].entry.image]
              => ImageBytes(images'[p].entry.image) <= MaxSingleImageSize]_vars

(* ---- C6 ---- *)
\* C6 as stated: every loadAllImageData call whose concurrency is not an
\* integer in [1,50] is rejected and starts no load, whatever the number of
\* registered images.
C6_InvalidConcurrencyAlwaysRejected ==
  [][\A c \in ConcurrencyInputs :
       (~ValidConcurrency(c) /\ LoadAllImageData(c))
         => (bulk'.status = "rejected" /\ inFlight' = {} /\ attempted' = {})]_vars

\* C6 amended: every loadAllImageData call on a store holding at least one
\* image whose concurrency is not an integer in [1,50] is rejected and starts
\* no load.
C6_InvalidConcurrencyRejectedWhenNonEmpty ==
  [][\A c \in ConcurrencyInputs :
       (~ValidConcurrency(c) /\ Len(images) > 0 /\ LoadAllImageData(c))
         => (bulk'.status = "rejected" /\ inFlight' = {} /\ attempted' = {}
             /\ UNCHANGED dataLoaded)]_vars

\* A bulk load over a non-empty store has just been rejected.
C6_Witness ==
  /\ last.op = "loadAllImageData"
  /\ last.error = "concurrency"
  /\ bulk.status = "rejected"
  /\ bulk.total > 0

(* ---- C7 ---- *)
\* C7: while a bulk load runs, at most `concurrency` ensureDataLoaded calls are
\* in flight, and a load has been started only if every load of every earlier
\* batch has settled.
C7_BoundedBatches ==
  bulk.status = "running" =>
    /\ Cardinality(inFlight) <= bulk.concurrency
    /\ inFlight \subseteq attempted
    /\ \A q \in attempted : \A p \in 1..bulk.total :
         BatchOf(p) < BatchOf(q) => (p \in attempted /\ p \notin inFlight)

\* The second batch of a load of 3 entries with concurrency 2 is in flight.
C7_Witness ==
  /\ bulk.status = "running"
  /\ bulk.concurrency = 2
  /\ bulk.total = 3
  /\ inFlight = {3}

(* ---- C8 ---- *)
\* C8: over n registered images the progress callback is invoked with
\* loaded = 1, 2, ..., in that order and total = n, once per settled load, and
\* exactly n times by the time the call resolves.
C8_ProgressCounts ==
  /\ progress = [k \in 1..Len(progress) |-> <<k, bulk.total>>]
  /\ bulk.status = "running" =>
       /\ bulk.total = getImageCount
       /\ Len(progress) = Cardinality(attempted \ inFlight)
  /\ bulk.status = "resolved" => Len(progress) = bulk.total

\* A bulk load of 3 entries has resolved with at least one failed load.
C8_Witness ==
  /\ bulk.status = "resolved"
  /\ bulk.total = 3
  /\ bulk.warned >= 1
  /\ Len(progress) = 3

(* ---- C9 ---- *)
\* C9: a failing load does not abort the bulk load: the call is rejected only
\* by the validation, before any load; while it runs every entry of the
\* batches started so far has had ensureDataLoaded invoked; and when it
\* resolves ensureDataLoaded has been invoked for every entry.
C9_FailureDoesNotAbort ==
  /\ bulk.status = "rejected" => (bulk.warned = 0 /\ attempted = {})
  /\ bulk.status = "running" =>
       attempted = 1..Min(bulk.i + bulk.concurrency, bulk.total)
  /\ (bulk.status = "running" /\ inFlight = {}) => ENABLED BatchJoined
  /\ bulk.status = "resolved" => attempted = 1..bulk.total

\* A load of the first batch has failed and the last batch has been started.
C9_Witness ==
  /\ bulk.status = "running"
  /\ bulk.warned >= 1
  /\ bulk.i > 0
  /\ attempted = 1..bulk.total
  /\ inFlight # {}

(* ---- C10 ---- *)
\* C10: releaseAllImageData leaves the entries, the relationship-id map and
\* both counters as they were; it only turns loaded images into unloaded ones.
C10_ReleaseKeepsRegistration ==
  [][last'.op = "releaseAllImageData"
       => /\ UNCHANGED <<images, imagesByRelId, nextImageNumber, nextDocPrId>>
          /\ \A i \in Img : dataLoaded'[i] => dataLoaded[i]]_vars

\* releaseAllImageData has just run on a store with two entries, and every
\* entry's image is unloaded.
C10_Witness ==
  /\ last.op = "releaseAllImageData"
  /\ Cardinality(DOMAIN imagesByRelId) = 2
  /\ getImageCount >= 2
  /\ \A p \in 1..Len(images) : ~dataLoaded[images[p].entry.image]

\* the filenames held by the entries of the images map
StoreFilenames == {images[p].entry.filename : p \in 1..Len(images)}

\* this step of registerImage mints a filename (from nextImageNumber)
Mints == nextImageNumber' # nextImageNumber /\ last'.op = "registerImage"

\* C11: over the lifetime of one manager, each newly minted filename
\* image<N>.<ext> gets an N strictly greater than the N of every filename
\* minted earlier, whatever public operations are called in between.
C11_NumberNeverReused ==
  [][\A i \in Img, r \in RelIdPlus :
       (RegisterImageNoted(i, r) /\ Mints) => nextImageNumber > highestMinted]_vars

C13_RemoveAbstractCascades ==
  [][\A a \in AbstractNumId :
       RemoveAbstractNumbering(a) =>
         /\ \A n \in DOMAIN instances' : instances'[n].abstractNumId # a
         /\ \A n \in DOMAIN instances :
              instances[n].abstractNumId # a =>
                n \in DOMAIN instances' /\ instances'[n] = instances[n]
         /\ a \notin DOMAIN abstractNumberings'
         /\ lastNumbering'.removed = (a \in DOMAIN abstractNumberings)]_vars

\* removeAbstractNumbering has returned true, and an instance of another
\* abstract numbering is in the store although a higher numId was added before
C13_Witness ==
  /\ lastNumbering.op = "removeAbstractNumbering"
  /\ lastNumbering.removed
  /\ DOMAIN instances # {}
  /\ \E n \in NumId : n < nextNumId /\ n \notin DOMAIN instances

\* C14: cleanupUnusedNumbering(U) leaves exactly the instances whose numId is
\* in U and exactly the abstract numberings referenced by a surviving instance,
\* and returns the numbers of instances and abstract numberings it removed.
C14_CleanupLeavesUsed ==
  [][\A U \in SUBSET NumId :
       CleanupUnusedNumbering(U) =>
         /\ DOMAIN instances' = (DOMAIN instances) \cap U
         /\ \A n \in DOMAIN instances' : instances'[n] = instances[n]
         /\ DOMAIN abstractNumberings' =
              {instances'[n].abstractNumId : n \in DOMAIN instances'}
         /\ \A a \in DOMAIN abstractNumberings' :
              abstractNumberings'[a] = abstractNumberings[a]
         /\ lastNumbering'.instancesRemoved =
              Cardinality(DOMAIN instances) - Cardinality(DOMAIN instances')
         /\ lastNumbering'.abstractsRemoved =
              Cardinality(DOMAIN abstractNumberings)
                - Cardinality(DOMAIN abstractNumberings')]_vars

\* cleanupUnusedNumbering has removed an instance and an abstract numbering
\* and has left an instance and its abstract numbering
C14_Witness ==
  /\ lastNumbering.op = "cleanupUnusedNumbering"
  /\ lastNumbering.instancesRemoved >= 1
  /\ lastNumbering.abstractsRemoved >= 1
  /\ DOMAIN instances # {}
  /\ DOMAIN abstractNumberings # {}

C16_AddedInstancesReturned ==
  [][\A numId \in NumId, a \in AbstractNumId :
       AddNumberingInstance(MakeInstance(numId, a)) =>
         \E p \in 1..Len(getAllNumberingInstances') :
           getAllNumberingInstances'[p] = MakeInstance(numId, a)]_vars

CountersAboveIds ==
  /\ \A a \in DOMAIN abstractNumberings : nextAbstractNumId > a
  /\ \A n \in DOMAIN instances : nextNumId > n

\* a step of one of the five create*List operations
CreateListStep ==
  \/ CreateBulletList
  \/ CreateNumberedList
  \/ CreateMultiLevelList
  \/ CreateOutlineList
  \/ CreateCustomList

\* a step of a create*List operation or of createInstance
CreateStep == CreateListStep \/ \E a \in AbstractNumId : CreateInstance(a)

\* C18: nextAbstractNumId is greater than every abstract numbering id in the
\* store and nextNumId is greater than every numId in the store; an id minted
\* by a create operation is not an id that was already registered.
C18_MintedIdsFresh ==
  /\ []CountersAboveIds
  /\ [][/\ (CreateStep /\ ~lastNumbering'.error) =>
             lastNumbering'.numId \notin DOMAIN instances
        /\ CreateListStep =>
             instances'[lastNumbering'.numId].abstractNumId
               \notin DOMAIN abstractNumberings]_vars

\* a create operation has minted ids above ids that were supplied explicitly
C18_Witness ==
  /\ lastNumbering.op = "createBulletList"
  /\ lastNumbering.numId = MaxNumId
  /\ instances[lastNumbering.numId].abstractNumId = MaxAbstractNumId
  /\ abstractNumberings[0].kind = "custom"
  /\ Cardinality(DOMAIN instances) = 2

\* C19 as stated: every create operation returns a numId greater than the
\* numId returned by every earlier create operation on this manager.
C19_ReturnedNumIdsIncrease ==
  [][(CreateStep /\ ~lastNumbering'.error) =>
       lastNumbering'.numId > highestReturned]_vars

\* C19: every create operation returns a numId greater than the numId
\* returned by every earlier create operation since construction or since the
\* last clear().
C19_ReturnedNumIdsIncreaseSinceClear ==
  [][(CreateStep /\ ~lastNumbering'.error) =>
       lastNumbering'.numId > highestReturnedSinceClear]_vars

\* a create operation called after a clear() has returned a numId that is
\* below a numId returned before that clear()
C19_Witness ==
  /\ lastNumbering.op \in CreateOps
  /\ ~lastNumbering.error
  /\ highestReturnedSinceClear = lastNumbering.numId
  /\ highestReturned > lastNumbering.numId

\* C20: a successful create*List call adds exactly one abstract numbering and
\* exactly one instance; the instance stored under the returned numId
\* references the abstract numbering added by the call, which is in the store.
C20_CreateListAddsPair ==
  [][(CreateListStep /\ ~lastNumbering'.error) =>
       LET numId == lastNumbering'.numId
       IN /\ DOMAIN instances' = (DOMAIN instances) \cup {numId}
          /\ numId \notin DOMAIN instances
          /\ \A n \in DOMAIN instances : instances'[n] = instances[n]
          /\ instances'[numId].numId = numId
          /\ DOMAIN abstractNumberings' =
               (DOMAIN abstractNumberings) \cup {instances'[numId].abstractNumId}
          /\ instances'[numId].abstractNumId \notin DOMAIN abstractNumberings
          /\ \A a \in DOMAIN abstractNumberings :
               abstractNumberings'[a] = abstractNumberings[a]
          /\ abstractNumberings'[instances'[numId].abstractNumId].abstractNumId
               = instances'[numId].abstractNumId]_vars

\* createOutlineList has added an outline numbering and its instance to a
\* store that held another pair
C20_Witness ==
  /\ lastNumbering.op = "createOutlineList"
  /\ ~lastNumbering.error
  /\ Cardinality(DOMAIN instances) >= 2
  /\ Cardinality(DOMAIN abstractNumberings) >= 2
  /\ abstractNumberings[instances[lastNumbering.numId].abstractNumId].kind = "outline"

\* the ids, as numbers, of the children of the root that carry this name
ChildIds(xml, name) ==
  LET named == SelectSeq(xml.children, LAMBDA c : c.name = name)
  IN [p \in 1..Len(named) |-> ParseInt(named[p].id)]

StrictlyAscending(ids) == \A p \in 1..(Len(ids) - 1) : ids[p] < ids[p + 1]

\* C21: the children of the numbering root produced by generateNumberingXml
\* and by toXML are every abstract numbering of the store in strictly
\* ascending abstractNumId order, followed by every instance of the store in
\* strictly ascending numId order; no instance precedes an abstract numbering.
C21_DefinitionsThenInstancesAscending ==
  [][(GenerateNumberingXml \/ ToXML) =>
       LET abstracts == ChildIds(numberingXml', AbstractNumberingToXML(
                                   MakeAbstractNumbering(0, "custom")).name)
           nums      == ChildIds(numberingXml', InstanceToXML(MakeInstance(1, 0)).name)
       IN /\ Len(numberingXml'.children) = Len(abstracts) + Len(nums)
          /\ \A p \in 1..Len(abstracts) :
               numberingXml'.children[p].name # InstanceToXML(MakeInstance(1, 0)).name
          /\ StrictlyAscending(abstracts)
          /\ StrictlyAscending(nums)
          /\ {abstracts[p] : p \in 1..Len(abstracts)} = DOMAIN abstractNumberings
          /\ {nums[p] : p \in 1..Len(nums)} = DOMAIN instances]_vars

\* the XML text was generated from a store whose two abstract numberings and
\* two instances were both added in descending id order
C21_Witness ==
  /\ numberingXml.op = "generateNumberingXml"
  /\ abstractOrder = <<1, 0>>
  /\ instanceOrder = <<2, 1>>
  /\ Len(numberingXml.children) = 4

\* C22: for every level L in 0..8 getStandardIndentation(L) returns
\* leftIndent = 720*(L+1) and hangingIndent = 360; for every level outside
\* 0..8 it fails with an error.
C22_StandardIndentation ==
  [][\A L \in LevelInputs :
       GetStandardIndentation(L) =>
         IF L \in 0..8
         THEN /\ ~lastIndentation'.error
              /\ lastIndentation'.leftIndent = 720 * (L + 1)
              /\ lastIndentation'.hangingIndent = 360
         ELSE lastIndentation'.error]_vars

\* getStandardIndentation(8) has returned 6480 and 360
C22_Witness ==
  /\ lastIndentation.op = "getStandardIndentation"
  /\ ~lastIndentation.error
  /\ lastIndentation.leftIndent = 6480
  /\ lastIndentation.hangingIndent = 360

\* every level of this abstract numbering has the standard indentation
AllLevelsStandard(perLevel) ==
  \A L \in DOMAIN perLevel :
    perLevel[L].leftIndent = 720 * (L + 1) /\ perLevel[L].hangingIndent = 360

\* C23: after normalizeListIndentation(numId) returns true every level L of
\* the abstract numbering referenced by numId has leftIndent 720*(L+1) and
\* hangingIndent 360, whatever setListIndentation calls preceded it; a second
\* call changes nothing; for a numId that is not registered it returns false
\* and changes nothing.
C23_NormalizeRestoresStandard ==
  [][\A numId \in NumId :
       NormalizeListIndentation(numId) =>
         /\ lastIndentation'.returned =>
              /\ AllLevelsStandard(levels'[instances[numId].abstractNumId])
              /\ LevelsAfterNormalize(levels', numId) = levels'
         /\ numId \notin DOMAIN instances =>
              ~lastIndentation'.returned /\ UNCHANGED levels
         /\ numId \in DOMAIN instances => lastIndentation'.returned]_vars

\* normalizeListIndentation has returned true for a custom list, whose only
\* level was created with indents 1440 and 0; the other list still has an
\* indentation set by hand
C23_Witness ==
  /\ lastIndentation.op = "normalizeListIndentation"
  /\ lastIndentation.returned
  /\ \E a \in DOMAIN levels : AllLevelsStandard(levels[a]) /\ DOMAIN levels[a] = {0}
  /\ \E a \in DOMAIN levels : ~AllLevelsStandard(levels[a])

\* C24: setListIndentation(numId, level, left, hanging) with a registered
\* numId and an existing level in 0..8 does not fail when left or hanging is
\* negative: it stores max(0, left) and max(0, hanging) on that level and
\* returns true; with a level outside 0..8 it fails with an error and changes
\* no level's indentation.
C24_SetClampsNegatives ==
  [][\A numId \in NumId, level \in SetLevelInputs,
        left \in LeftInputs, hanging \in HangingInputs :
       SetListIndentation(numId, level, left, hanging) =>
         /\ (/\ numId \in DOMAIN instances
             /\ level \in 0..8
             /\ level \in DOMAIN levels[instances[numId].abstractNumId]) =>
              /\ ~lastIndentation'.error
              /\ lastIndentation'.returned
              /\ levels'[instances[numId].abstractNumId][level].leftIndent
                   = (IF left < 0 THEN 0 ELSE left)
              /\ levels'[instances[numId].abstractNumId][level].hangingIndent
                   = (IF ~hanging.given THEN 360
                      ELSE IF hanging.value < 0 THEN 0 ELSE hanging.value)
         /\ level \notin 0..8 => lastIndentation'.error /\ UNCHANGED levels]_vars

\* setListIndentation has returned true and has stored 0 where a negative
\* left indent was requested
C24_Witness ==
  /\ lastIndentation.op = "setListIndentation"
  /\ lastIndentation.returned
  /\ lastIndentation.leftIndent = 0
  /\ \E a \in DOMAIN levels : levels[a][MaxLevel].leftIndent = 0


(* ---------------------------- CommentManager --------------------------- *)

\* a step that registers a comment
RegisterStep ==
  \/ \E comment \in CommentInputs : RegisterComment(comment)
  \/ CreateComment
  \/ \E parentCommentId \in CommentId :
       ~ParentMissing(parentCommentId) /\ CreateReply(parentCommentId)

\* C25: CommentManager assigns ids in call order starting at 0: the k-th
\* comment registered since construction (or since the last clear) gets id
\* k-1, removing comments never makes an id available again, and no two
\* comments in the store have the same id.
C25_IdsInCallOrder ==
  [][/\ RegisterStep =>
          /\ lastComment'.id = registrations
          /\ lastComment'.id \notin DOMAIN comments
          /\ comments'[lastComment'.id].comment.id = lastComment'.id
     /\ (\E id \in CommentId : RemoveComment(id)) =>
          /\ nextId' = nextId
          /\ nextId' >= registrations'
     /\ \A k1, k2 \in DOMAIN comments' :
          k1 # k2 => comments'[k1].comment.id # comments'[k2].comment.id
    ]_vars

\* a comment has been registered after an earlier one was removed, and the
\* ids that were given out are no longer all in the store
C25_Witness ==
  /\ lastComment.op \in RegisterOps
  /\ ~lastComment.error
  /\ lastComment.id = MaxCommentId
  /\ lastComment.id \in DOMAIN comments
  /\ \E id \in CommentId : id < lastComment.id /\ id \notin DOMAIN comments

\* C26: createReply(parentId, ...) fails with an error when no comment with
\* id parentId is in the store (never registered, or removed), and the failed
\* call leaves the store unchanged: same comments, same reply lists, same
\* next id.
C26_ReplyToMissingParentFails ==
  [][\A parentCommentId \in CommentId :
       (parentCommentId \notin DOMAIN comments /\ CreateReply(parentCommentId))
         => /\ lastComment'.error
            /\ comments' = comments
            /\ commentOrder' = commentOrder
            /\ nextId' = nextId
    ]_vars

\* createReply has thrown in a store that holds a comment with replies and
\* from which a comment was removed
C26_Witness ==
  /\ lastComment.op = "createReply"
  /\ lastComment.error
  /\ \E k \in DOMAIN comments : comments[k].replies # <<>>
  /\ \E id \in CommentId : id < nextId /\ id \notin DOMAIN comments

\* the stored comments that are replies to the comment with id p
RepliesTo(p) ==
  {k \in DOMAIN comments : isReply(comments[k].comment)
                            /\ comments[k].comment.parentId = p}

\* C27: after removeComment(p) returns true, neither p nor any comment that
\* was registered as a reply to p is in the store (the count has dropped
\* accordingly), and every other comment is still in the store;
\* removeComment of an id not in the store returns false and changes nothing.
C27_RemoveCascadesToReplies ==
  [][\A p \in CommentId :
       RemoveComment(p) =>
         /\ lastComment'.returned =>
              /\ p \notin DOMAIN comments'
              /\ RepliesTo(p) \cap DOMAIN comments' = {}
              /\ Cardinality(DOMAIN comments') =
                   getCount - Cardinality({p} \cup RepliesTo(p))
              /\ \A k \in DOMAIN comments \ ({p} \cup RepliesTo(p)) :
                   k \in DOMAIN comments'
         /\ p \notin DOMAIN comments =>
              /\ ~lastComment'.returned
              /\ UNCHANGED <<comments, commentOrder, nextId>>
    ]_vars

\* C28: register of a reply comment whose parent id is not in the store does
\* not fail: the comment is stored under a fresh id and counted by getCount,
\* it is added to no comment's reply list, and it is not returned by
\* getAllComments (top-level only).
C28_OrphanReplyRegistered ==
  [][\A comment \in CommentInputs :
       (/\ isReply(comment)
        /\ comment.parentId \notin DOMAIN comments
        /\ RegisterComment(comment))
         => /\ ~lastComment'.error
            /\ lastComment'.id \notin DOMAIN comments
            /\ lastComment'.id \in DOMAIN comments'
            /\ Cardinality(DOMAIN comments') = getCount + 1
            /\ \A k \in DOMAIN comments' :
                 lastComment'.id \notin Range(comments'[k].replies)
            /\ \A i \in DOMAIN getAllComments' :
                 getAllComments'[i].id # lastComment'.id
    ]_vars

\* the store holds a reply whose parent id is not the id of a stored comment
HasOrphanReply ==
  \E k \in DOMAIN comments :
    /\ isReply(comments[k].comment)
    /\ comments[k].comment.parentId \notin DOMAIN comments

FieldStage(run) ==
  CASE run.name # "w:r" -> "none"
    [] Len(run.children) = 1 /\ run.children[1].name = "w:fldChar"
         -> run.children[1].attribute
    [] Len(run.children) = 1 /\ run.children[1].name = "w:instrText"
         -> "instruction"
    [] \E i \in DOMAIN run.children : run.children[i].name = "w:t"
         -> "content"
    [] OTHER -> "none"

\* the stages of the runs of a paragraph, in order
FieldStages(paragraph) ==
  [i \in DOMAIN paragraph.children |-> FieldStage(paragraph.children[i])]

\* C30: for every TableOfContents reachable through the constructor, the
\* setters and configure, toXML() returns as its last element a field
\* paragraph with exactly 5 runs in the order begin marker, instruction text,
\* separate marker, cached result content, end marker; it never returns a
\* field paragraph with a stage missing, duplicated or out of order.
C30_FieldParagraphComplete ==
  [][TableOfContentsToXML =>
       /\ ~lastToc'.error
       /\ lastToc'.elements # <<>>
       /\ LET fieldParagraph == lastToc'.elements[Len(lastToc'.elements)]
          IN /\ fieldParagraph.name = "w:p"
             /\ Len(fieldParagraph.children) = 5
             /\ FieldStages(fieldParagraph) =
                  <<"begin", "instruction", "separate", "content", "end">>
             /\ fieldParagraph.children[2].children[1].text = buildFieldInstruction
    ]_vars

\* toXML() has returned for a table of contents without a title, with levels
\* outside 1..9 and with a tab leader, field switches and included styles
\* set through configure or the setters
C30_Witness ==
  /\ lastToc.op = "toXML"
  /\ ~lastToc.error
  /\ Len(lastToc.elements) = 1
  /\ toc.title = ""
  /\ toc.levels > MaxTocLevels
  /\ toc.tabLeader # "dot"
  /\ toc.fieldSwitches.given
  /\ toc.includeStyles.given /\ toc.includeStyles.value = <<>>


(* -------------------------------- Style -------------------------------- *)

\* C31: after any sequence of Style construction, setBasedOn, setLink and
\* mergeWith, the style's basedOn is different from its own styleId and its
\* link is different from its own styleId.
C31_NoSelfReference ==
  /\ ~(style.basedOn.given /\ style.basedOn.value = style.styleId)
  /\ ~(style.link.given /\ style.link.value = style.styleId)

\* a Style setter that rejects its argument
RejectingSetter ==
  \/ \E priority \in {MinUiPriority - 1, MaxUiPriority + 1} :
       SetUiPriority(priority)
  \/ SetRowBandSize(-1)
  \/ SetColBandSize(-1)

\* C39: a Style setter that rejects its argument with a validation error
\* (setUiPriority outside 0..99, setRowBandSize or setColBandSize with a
\* negative size) leaves the style's properties, as returned by
\* getProperties(), exactly as they were before the call.
C39_RejectedSetterChangesNothing ==
  [][RejectingSetter => lastStyle'.error /\ getProperties' = getProperties]_vars


(* ----------------------- Structured Document Tag ----------------------- *)

\* the content of b has, at every position, an element of the kind that a
\* has there, content controls having the same control type and, in turn,
\* contents that agree in the same way
RECURSIVE SameControls(_, _)
SameControls(a, b) ==
  /\ a.kind = b.kind
  /\ a.kind = "sdt" =>
       /\ a.controlType = b.controlType
       /\ Len(a.content) = Len(b.content)
       /\ \A i \in DOMAIN a.content : SameControls(a.content[i], b.content[i])

\* C32: encoding then decoding a content control whose content sequence
\* contains a nested content control yields a content control whose content
\* sequence contains, at the same position, a content control with the inner
\* control's type, for nesting of any bounded depth.
C32_NestedSdtRoundTrip ==
  loadedSdt # NoElement => SameControls(sdt, loadedSdt)

\* an outer richText control with an inner plainText control at the second
\* position, which itself holds a content control, has been decoded
C32_Witness ==
  /\ loadedSdt # NoElement
  /\ SdtDepth(sdt) = MaxSdtDepth
  /\ sdt.controlType = "richText"
  /\ Len(loadedSdt.content) = 2
  /\ loadedSdt.content[2].kind = "sdt"
  /\ loadedSdt.content[2].controlType = "plainText"
  /\ \E i \in DOMAIN loadedSdt.content[2].content :
       loadedSdt.content[2].content[i].kind = "sdt"


(* ------------------- ImageManager: further properties ------------------ *)

\* C33: in every state reachable through registerImage calls on one
\* ImageManager, getImageCount() is at most the configured maxImageCount.
C33_CountWithinLimit == getImageCount <= maxImageCount

\* C37: when loadAllImageData resolves, a load has been attempted for every
\* image in the store at that moment and the last progress callback reported
\* loaded equal to the number of images in the store, including when
\* registerImage is called while the bulk load is suspended waiting for a
\* batch.
C37_ResolvedLoadCoversStore ==
  [][(BatchJoined /\ bulk'.status = "resolved") =>
       /\ \A p \in 1..Len(images) :
            \E q \in attempted : bulk.images[q].image = images[p].entry.image
       /\ progress # <<>>
       /\ progress[Len(progress)][1] = getImageCount
    ]_vars

(* ------------------- CommentManager: further properties ---------------- *)

\* C34: in every state reachable through createComment, createReply,
\* removeComment and clear, every reply in the store has a parent id that is
\* the id of a comment in the store (no orphaned reply), including when
\* replies are made to replies.
C34_NoOrphanReply == ~HasOrphanReply

\* C35: in every reachable state the comments returned by getReplies(id) and
\* by getCommentThread(id).replies are comments currently in the store (a
\* reply removed by removeComment is no longer listed among its parent's
\* replies), and hasReplies(id) is true only if a stored reply to id exists.
C35_RepliesAreStored ==
  \A id \in CommentId :
    /\ Range(getReplies(id)) \subseteq DOMAIN comments
    /\ Range(getCommentThread(id).replies) \subseteq DOMAIN comments
    /\ hasReplies(id) =>
         \E k \in DOMAIN comments :
           /\ isReply(comments[k].comment)
           /\ comments[k].comment.parentId = id

(* ------------------- NumberingManager: frame of indentation ------------ *)

\* the levels observed through list m's abstract numbering
LevelsThrough(m) ==
  IF m \in DOMAIN instances /\ instances[m].abstractNumId \in DOMAIN levels
  THEN levels[instances[m].abstractNumId]
  ELSE <<>>

\* a call of setListIndentation or normalizeListIndentation for list n
IndentsList(n) ==
  \/ \E level \in SetLevelInputs, leftIndent \in LeftInputs,
        hangingIndent \in HangingInputs :
       SetListIndentation(n, level, leftIndent, hangingIndent)
  \/ NormalizeListIndentation(n)

\* C36: setListIndentation(n, ...) and normalizeListIndentation(n) change the
\* indentation of list n only: for every other registered numId m different
\* from n, the left and hanging indent of every level observed through m's
\* abstract numbering are the same after the call as before it.
C36_OtherListsKeepIndentation ==
  [][\A n \in NumId :
       IndentsList(n) =>
         \A m \in DOMAIN instances \ {n} : LevelsThrough(m)' = LevelsThrough(m)
    ]_vars

(* ------------------- TableOfContents: heading levels ------------------- *)

\* the start of the instruction text that lists heading levels 1 to k
LevelSwitch(k) == <<"TOC", " \\o \"1-">> \o NumberToString(k) \o <<"\"">>

\* C38: in every TableOfContents reachable through the constructor, setLevels
\* and configure, the number of heading levels is within 1..9, so the
\* instruction text's heading-level switch is always "1-k" with 1 <= k <= 9 (a
\* request for a value outside 1..9 is rejected with an error on every one of
\* these paths, leaving the levels within range).
C38_LevelsWithinRange ==
  /\ toc.levels \in MinTocLevels..MaxTocLevels
  /\ ~(toc.includeStyles.given /\ Len(toc.includeStyles.value) > 0) =>
       \E k \in MinTocLevels..MaxTocLevels :
         SubSeq(buildFieldInstruction, 1, Len(LevelSwitch(k))) = LevelSwitch(k)

====
